---- MODULE Spec2Model ----
(***************************************************************************)
(* Model of the Linear command-line client: the GraphQL client             *)
(* (linear/api.py), the CLI commands (linear/cli.py), the presenters       *)
(* (linear/formatters.py) and the editor round trip                        *)
(* (linear/utils/editor.py).                                               *)
(***************************************************************************)
EXTENDS Integers, Sequences, FiniteSets, TLC

VARIABLES
    pc,         \* position of the client: start, idle, posted, done, failed
    client,     \* the constructed LinearClient (api_key, headers) or PyNone
    ctor,       \* the arguments and environment of the last construction
    call,       \* the client operation in progress and its arguments
    posts,      \* the HTTP POSTs sent for the operation in progress
    response,   \* the server's answer to the POST, once it arrived
    outcome     \* what the operation (or the constructor) returned or raised

clientVars == <<pc, client, ctor, call, posts, response, outcome>>

VARIABLES
    cmd,        \* the CLI command that ran last, with its inputs
    stdout,     \* what the command printed on the output stream, print by print
    stderr,     \* what the command printed on the error stream
    exit_status \* the exit status of the command, -1 while none has run

cliVars == <<cmd, stdout, stderr, exit_status>>

VARIABLES
    epc,        \* position of edit_issue_in_editor
    issue_data, \* the IssueData passed to edit_issue_in_editor
    temp_file,  \* the temporary file: absent (PyNone), or its content
    edit,       \* the editor's run: its exit code and what it left in the file
    eoutcome,   \* what edit_issue_in_editor returned or raised
    ecalls      \* the steps edit_issue_in_editor has called so far, in order

editorVars == <<epc, issue_data, temp_file, edit, eoutcome, ecalls>>

VARIABLES
    vdata,      \* the JSON object handed to a model and the field looked at
    vflat,      \* what the field's before-validator returned, call by call
    vresult     \* the field of the validated model, or the ValidationError

modelVars == <<vdata, vflat, vresult>>

VARIABLES
    gcall,      \* the last call of format_table_grouped: its arguments and locals
    gout,       \* what the call printed, print by print
    gresult     \* what the call returned or raised

groupVars == <<gcall, gout, gresult>>

vars == <<clientVars, cliVars, editorVars, modelVars, groupVars>>

(***************************************************************************)
(* Python values.  Every value carries its type tag, so that None, "", 0,  *)
(* {} and [] stay distinct and truthiness is computed as Python does.      *)
(***************************************************************************)
PyNone == [t |-> "none"]
PStr(s) == [t |-> "str", v |-> s]
PChars(cs) == [t |-> "chars", c |-> cs]      \* a string kept as its characters
PInt(i) == [t |-> "int", v |-> i]
PBool(b) == [t |-> "bool", v |-> b]
PFloat(tenths) == [t |-> "float", tenths |-> tenths]   \* the float tenths / 10
PDict(f) == [t |-> "dict", f |-> f]
PList(l) == [t |-> "list", l |-> l]
JInvalid == [t |-> "invalid"]                \* a body that is not JSON

EmptyDict == <<>>

Truthy(x) ==
    CASE x.t = "none" -> FALSE
      [] x.t = "str" -> x.v # ""
      [] x.t = "chars" -> x.c # <<>>
      [] x.t = "int" -> x.v # 0
      [] x.t = "bool" -> x.v
      [] x.t = "float" -> x.tenths # 0
      [] x.t = "dict" -> DOMAIN x.f # {}
      [] x.t = "list" -> x.l # <<>>

\* dict.get(key, default)
DictGet(d, key, default) == IF key \in DOMAIN d.f THEN d.f[key] ELSE default

Min(a, b) == IF a <= b THEN a ELSE b

RECURSIVE Join(_, _)
Join(strs, sep) ==
    IF strs = <<>> THEN ""
    ELSE IF Len(strs) = 1 THEN strs[1]
    ELSE strs[1] \o sep \o Join(Tail(strs), sep)

RECURSIVE Rep(_, _)
Rep(ch, n) == IF n = 0 THEN <<>> ELSE <<ch>> \o Rep(ch, n - 1)

Return(v) == [kind |-> "return", value |-> v]
Raise(exc, msg) == [kind |-> "raise", exc |-> exc, msg |-> msg]
NoOutcome == [kind |-> "none"]

(***************************************************************************)
(* Program constants.                                                      *)
(***************************************************************************)
API_URL == "https://api.linear.app/graphql"
RATE_LIMIT == 1500
PAGE_MAX == 250
UUID_LEN == 36

(***************************************************************************)
(* Bounds of the model.                                                    *)
(***************************************************************************)
MaxLimit == 252
MaxErrors == 2

(***************************************************************************)
(* LinearClient.__init__ (api.py 21-40).                                   *)
(***************************************************************************)
ConfigMessage ==
    <<"No API key provided. Set LINEAR_API_KEY environment variable or pass api_key parameter.",
      "Get your API key at: https://linear.app/settings/api">>

\* Python's `a or b`
PyOr(a, b) == IF Truthy(a) THEN a ELSE b

\* mutant: the environment variable wins over the explicit parameter
resolve_api_key_env_first(api_key, env_key) == PyOr(env_key, api_key)

\* self.api_key = api_key or os.getenv("LINEAR_API_KEY")
resolve_api_key(api_key, env_key) == PyOr(api_key, env_key)

\* the constructor as a function: what it raises, or the client it builds
LinearClient_new(api_key, env_key) ==
    LET key == resolve_api_key(api_key, env_key) IN
    IF ~Truthy(key)
    THEN Raise("LinearClientError", ConfigMessage)
    ELSE Return([api_key |-> key,
                 headers |-> [Authorization |-> key,
                              ContentType |-> "application/json"]])

(***************************************************************************)
(* LinearClient.query (api.py 42-92): the request side.                    *)
(***************************************************************************)
\* payload = {"query": query}; if variables: payload["variables"] = variables
query_payload(q, variables) ==
    IF Truthy(variables)
    THEN [query |-> q, variables |-> variables]
    ELSE [query |-> q]

\* client.post(self.API_URL, json=payload, headers=self.headers)
query_post(c, q, variables) ==
    [url |-> API_URL, json |-> query_payload(q, variables), headers |-> c.headers]

(***************************************************************************)
(* The query builders (api.py 94-300, 402-486, 570-634).                   *)
(***************************************************************************)
HasHyphen(cs) == \E i \in 1..Len(cs) : cs[i] = "-"

\* mutant: the identifier test looks at the length only
project_filter_length_only(project) ==
    IF Len(project.c) = UUID_LEN
    THEN [id |-> [eq |-> project]]
    ELSE [name |-> [contains |-> project]]

\* api.py 131-136
project_filter(project) ==
    IF Len(project.c) = UUID_LEN /\ HasHyphen(project.c)
    THEN [id |-> [eq |-> project]]
    ELSE [name |-> [contains |-> project]]

\* mutant: the team is matched by its key only
team_filter_key_only(team) ==
    [or |-> <<[key |-> [eqIgnoreCase |-> team]]>>]

\* api.py 141-148
team_filter(team) ==
    [or |-> <<[key |-> [eqIgnoreCase |-> team]],
              [name |-> [containsIgnoreCase |-> team]]>>]

\* mutant: `if priority:` in place of `if priority is not None:`
list_issues_filters_truthy_priority(assignee, project, status, team, priority, labels) ==
    (IF Truthy(assignee) THEN "assignee" :> [email |-> [eq |-> assignee]] ELSE EmptyDict)
    @@ (IF Truthy(project) THEN "project" :> project_filter(project) ELSE EmptyDict)
    @@ (IF Truthy(status) THEN "state" :> [name |-> [eqIgnoreCase |-> status]] ELSE EmptyDict)
    @@ (IF Truthy(team) THEN "team" :> team_filter(team) ELSE EmptyDict)
    @@ (IF Truthy(priority) THEN "priority" :> [eq |-> priority] ELSE EmptyDict)
    @@ (IF Truthy(labels) THEN "labels" :> [name |-> [in |-> labels]] ELSE EmptyDict)

\* api.py 125-154
list_issues_filters(assignee, project, status, team, priority, labels) ==
    (IF Truthy(assignee) THEN "assignee" :> [email |-> [eq |-> assignee]] ELSE EmptyDict)
    @@ (IF Truthy(project) THEN "project" :> project_filter(project) ELSE EmptyDict)
    @@ (IF Truthy(status) THEN "state" :> [name |-> [eqIgnoreCase |-> status]] ELSE EmptyDict)
    @@ (IF Truthy(team) THEN "team" :> team_filter(team) ELSE EmptyDict)
    @@ (IF priority # PyNone THEN "priority" :> [eq |-> priority] ELSE EmptyDict)
    @@ (IF Truthy(labels) THEN "labels" :> [name |-> [in |-> labels]] ELSE EmptyDict)

\* mutant: the issue sort map has no "priority" entry
issues_order_by_no_priority(sort) ==
    CASE sort = "created" -> "createdAt"
      [] sort = "updated" -> "updatedAt"
      [] OTHER -> "updatedAt"

\* api.py 156-162 and 241-247: order_by_map.get(sort, "updatedAt")
issues_order_by(sort) ==
    CASE sort = "created" -> "createdAt"
      [] sort = "updated" -> "updatedAt"
      [] sort = "priority" -> "priority"
      [] OTHER -> "updatedAt"

\* api.py 438-440
projects_order_by(sort) ==
    CASE sort = "created" -> "createdAt"
      [] sort = "updated" -> "updatedAt"
      [] OTHER -> "updatedAt"

\* mutant: the limit is passed through without the cap
page_size_uncapped(limit) == limit

\* min(limit, 250)
page_size(limit) == Min(limit, PAGE_MAX)

\* `filters if filters else None`
filter_or_none(filters) == IF DOMAIN filters # {} THEN PDict(filters) ELSE PyNone

\* api.py 208-213
list_issues_variables(a) ==
    PDict([filter |-> filter_or_none(list_issues_filters(
                          a.assignee, a.project, a.status, a.team, a.priority, a.labels)),
           first |-> page_size(a.limit),
           includeArchived |-> a.include_archived,
           orderBy |-> issues_order_by(a.sort)])

\* api.py 239, 293-298
search_issues_variables(a) ==
    PDict([filter |-> PDict("title" :> [containsIgnoreCase |-> a.query]),
           first |-> page_size(a.limit),
           includeArchived |-> a.include_archived,
           orderBy |-> issues_order_by(a.sort)])

\* api.py 426-436
list_projects_filters(state, team) ==
    (IF Truthy(state) THEN "state" :> [eqIgnoreCase |-> state] ELSE EmptyDict)
    @@ (IF Truthy(team)
        THEN "or" :> <<[teams |-> [some |-> [key |-> [eqIgnoreCase |-> team]]]],
                       [teams |-> [some |-> [name |-> [containsIgnoreCase |-> team]]]]>>
        ELSE EmptyDict)

\* api.py 479-484
list_projects_variables(a) ==
    PDict([filter |-> filter_or_none(list_projects_filters(a.state, a.team)),
           first |-> page_size(a.limit),
           includeArchived |-> a.include_archived,
           orderBy |-> projects_order_by(a.sort)])

\* api.py 628-632
list_teams_variables(a) ==
    PDict([filter |-> PyNone,
           first |-> page_size(a.limit),
           includeArchived |-> a.include_archived])

\* api.py 393, 561, 724
get_variables(a) == PDict([id |-> a.id])

(***************************************************************************)
(* LinearClient.query (api.py 61-92): the response side.                   *)
(***************************************************************************)
\* httpx: raise_for_status() raises HTTPStatusError unless the status is 2xx
Is2xx(status) == status >= 200 /\ status < 300

\* str(e) of an error object that has no "message": Python's repr of the dict
py_str(e) ==
    LET k == CHOOSE k \in DOMAIN e : TRUE IN "{'" \o k \o "': '" \o e[k] \o "'}"

\* [e.get("message", str(e)) for e in errors]
error_messages(errors) ==
    [i \in 1..Len(errors) |->
        IF "message" \in DOMAIN errors[i] THEN errors[i]["message"] ELSE py_str(errors[i])]

AuthMessage ==
    <<"Authentication failed. Check your API key.",
      "Get your API key at: https://linear.app/settings/api">>

RateLimitMessage ==
    <<"Rate limit exceeded. Linear API allows ", ToString(RATE_LIMIT),
      " requests per hour.", "Please wait before making more requests.">>

\* mutant: the 429 branch is missing
http_status_error_no_429(resp) ==
    IF resp.status = 401 THEN Raise("LinearClientError", AuthMessage)
    ELSE Raise("LinearClientError",
               <<"HTTP error: ", ToString(resp.status), " - ", resp.text>>)

\* api.py 76-90: except httpx.HTTPStatusError
http_status_error(resp) ==
    IF resp.status = 401 THEN Raise("LinearClientError", AuthMessage)
    ELSE IF resp.status = 429 THEN Raise("LinearClientError", RateLimitMessage)
    ELSE Raise("LinearClientError",
               <<"HTTP error: ", ToString(resp.status), " - ", resp.text>>)

\* api.py 91-92: except httpx.RequestError
request_error(resp) == Raise("LinearClientError", <<"Network error: ", resp.detail>>)

\* mutant: `if data.get("errors"):` in place of `if "errors" in data:`
query_body_truthy_errors(resp) ==
    IF resp.body = JInvalid
    THEN Raise("JSONDecodeError", <<"Expecting value: line 1 column 1 (char 0)">>)
    ELSE IF Truthy(DictGet(resp.body, "errors", PyNone))
    THEN Raise("LinearClientError",
               <<"GraphQL errors: ", Join(error_messages(resp.body.f["errors"].l), ", ")>>)
    ELSE Return(DictGet(resp.body, "data", PDict(EmptyDict)))

\* api.py 65-74: the body of a 2xx response
query_body(resp) ==
    IF resp.body = JInvalid
    THEN Raise("JSONDecodeError", <<"Expecting value: line 1 column 1 (char 0)">>)
    ELSE IF "errors" \in DOMAIN resp.body.f
    THEN Raise("LinearClientError",
               <<"GraphQL errors: ", Join(error_messages(resp.body.f["errors"].l), ", ")>>)
    ELSE Return(DictGet(resp.body, "data", PDict(EmptyDict)))

\* what query returns or raises for a response
query_result(resp) ==
    IF resp.kind = "request_error" THEN request_error(resp)
    ELSE IF ~Is2xx(resp.status) THEN http_status_error(resp)
    ELSE query_body(resp)

GetOps == {"get_issue", "get_project", "get_team"}

entity_field(op) ==
    CASE op = "get_issue" -> "issue"
      [] op = "get_project" -> "project"
      [] op = "get_team" -> "team"

entity_label(op) ==
    CASE op = "get_issue" -> "Issue"
      [] op = "get_project" -> "Project"
      [] op = "get_team" -> "Team"

\* api.py 395-400, 563-568, 726-731:
\*   response = self.query(query, variables)
\*   if not response.get("issue"): raise LinearClientError(f"Issue '{issue_id}' not found")
get_result(op, id, resp) ==
    LET r == query_result(resp) IN
    IF r.kind = "raise" THEN r
    ELSE IF r.value.t # "dict"
    THEN Raise("AttributeError", <<"'NoneType' object has no attribute 'get'">>)
    ELSE IF ~Truthy(DictGet(r.value, entity_field(op), PyNone))
    THEN Raise("LinearClientError", <<entity_label(op) \o " '", id.v, "' not found">>)
    ELSE r

\* what the operation in progress returns or raises for a response
operation_result(c, resp) ==
    IF c.op \in GetOps THEN get_result(c.op, c.args.id, resp) ELSE query_result(resp)

(***************************************************************************)
(* Inputs: constructor arguments, operation arguments, server responses.   *)
(***************************************************************************)
ApiKeyArgs == {PyNone, PStr(""), PStr("lin_api_arg")}
EnvKeys == {PyNone, PStr(""), PStr("lin_api_env")}

Limits == {0, 1, 50, PAGE_MAX - 1, PAGE_MAX, PAGE_MAX + 1, MaxLimit}
Sorts == {"created", "updated", "priority", "title"}

Name36 == PChars(Rep("x", UUID_LEN))
Uuid == PChars(Rep("a", 8) \o <<"-">> \o Rep("0", UUID_LEN - 9))
Projects ==
    {PyNone, PChars(<<>>), PChars(<<"W", "e", "b">>), PChars(<<"a", "-", "b">>),
     Uuid, Name36,
     PChars(Rep("a", 8) \o <<"-">> \o Rep("0", UUID_LEN - 10)),
     PChars(Rep("a", 8) \o <<"-">> \o Rep("0", UUID_LEN - 8))}

ListIssuesArgs(assignees, projects, statuses, teams, priorities, labelss, limits, sorts, archs) ==
    [assignee : assignees, project : projects, status : statuses, team : teams,
     priority : priorities, labels : labelss, limit : limits, sort : sorts,
     include_archived : archs]

\* calls that vary the page size and the sort key
PagingCalls ==
    ListIssuesArgs({PyNone, PStr("ann@example.com")}, {PyNone}, {PyNone}, {PyNone},
                   {PyNone}, {PyNone}, Limits, Sorts, BOOLEAN)

\* calls that vary the six filter parameters
FilterCalls ==
    ListIssuesArgs({PyNone, PStr(""), PStr("ann@example.com")}, Projects,
                   {PyNone, PStr(""), PStr("In Progress")},
                   {PyNone, PStr(""), PStr("ENG")},
                   {PyNone, PInt(0), PInt(1)},
                   {PyNone, PList(<<>>), PList(<<"bug">>), PList(<<"bug", "urgent">>)},
                   {10}, {"updated"}, {FALSE})

SearchCalls ==
    [query : {PStr("login")}, limit : Limits, sort : Sorts, include_archived : BOOLEAN]

ListProjectsCalls ==
    [state : {PyNone, PStr("started")}, team : {PyNone, PStr("ENG")},
     limit : Limits, sort : Sorts, include_archived : {FALSE}]

ListTeamsCalls == [limit : Limits, include_archived : BOOLEAN]

GetCalls == [id : {PStr("ENG-1"), PStr("0f9a")}]

QueryCalls ==
    [query : {"query { viewer { id } }"},
     variables : {PyNone, PDict(EmptyDict), PDict([id |-> PStr("ENG-1")])}]

RECURSIVE SeqsUpTo(_, _)
SeqsUpTo(S, n) ==
    IF n = 0 THEN {<<>>}
    ELSE LET shorter == SeqsUpTo(S, n - 1) IN
         shorter \cup {Append(q, x) : q \in shorter, x \in S}

ErrorObjects == {"message" :> "Entity not found", "code" :> "INTERNAL"}
ErrorLists == SeqsUpTo(ErrorObjects, MaxErrors)

Entity == PDict("id" :> PStr("e1"))
EntityValues == {PyNone, PDict(EmptyDict), Entity}
DataValues ==
    {PyNone, PDict(EmptyDict),
     PDict("issues" :> PDict("nodes" :> PList(<<>>)))}
    \cup {PDict(k :> v) : k \in {"issue", "project", "team"}, v \in EntityValues}

\* JSON bodies of 2xx responses: with or without "errors", with or without "data"
Bodies ==
    {PDict(EmptyDict)}
    \cup {PDict("data" :> d) : d \in DataValues}
    \cup {PDict("errors" :> PList(e)) : e \in ErrorLists}
    \cup {PDict(("errors" :> PList(e)) @@ ("data" :> d)) :
              e \in ErrorLists, d \in {PyNone, PDict("issue" :> Entity)}}

Responses ==
    {[kind |-> "request_error", detail |-> "timed out"]}
    \cup [kind : {"http"}, status : {301, 400, 401, 404, 429, 500},
          text : {"", "upstream failure"}, body : {JInvalid}]
    \cup [kind : {"http"}, status : {200, 204}, text : {""}, body : {JInvalid}]
    \cup [kind : {"http"}, status : {200}, text : {""}, body : Bodies]

\* the answers to the filter calls: a failure, an empty page, a GraphQL error
FilterResponses ==
    {[kind |-> "request_error", detail |-> "timed out"],
     [kind |-> "http", status |-> 200, text |-> "",
      body |-> PDict("data" :> PDict("issues" :> PDict("nodes" :> PList(<<>>))))],
     [kind |-> "http", status |-> 200, text |-> "",
      body |-> PDict("errors" :> PList(<<"message" :> "Entity not found">>))]}

(***************************************************************************)
(* The client as a state machine.                                          *)
(***************************************************************************)
Init ==
    /\ pc = "start"
    /\ client = PyNone
    /\ ctor = PyNone
    /\ call = PyNone
    /\ posts = <<>>
    /\ response = PyNone
    /\ outcome = NoOutcome
    /\ cmd = PyNone
    /\ stdout = <<>>
    /\ stderr = <<>>
    /\ exit_status = -1
    /\ epc = "idle"
    /\ issue_data = PyNone
    /\ temp_file = PyNone
    /\ edit = PyNone
    /\ eoutcome = NoOutcome
    /\ ecalls = <<>>
    /\ vdata = PyNone
    /\ vflat = <<>>
    /\ vresult = NoOutcome
    /\ gcall = PyNone
    /\ gout = <<>>
    /\ gresult = NoOutcome

\* LinearClient(api_key) with LINEAR_API_KEY = env_key
LinearClient_init(api_key, env_key) ==
    /\ pc = "start"
    /\ ctor' = [api_key |-> api_key, env |-> env_key]
    /\ LET r == LinearClient_new(api_key, env_key) IN
        IF r.kind = "raise"
        THEN client' = PyNone /\ outcome' = r /\ pc' = "failed"
        ELSE client' = r.value /\ outcome' = NoOutcome /\ pc' = "idle"
    /\ UNCHANGED <<call, posts, response, cliVars, editorVars, modelVars, groupVars>>

\* an operation up to the point where query has sent its POST and waits
send(op, args, q, variables) ==
    /\ pc = "idle"
    /\ call' = [op |-> op, args |-> args]
    /\ posts' = Append(posts, query_post(client, q, variables))
    /\ pc' = "posted"
    /\ UNCHANGED <<client, ctor, response, outcome, cliVars, editorVars, modelVars, groupVars>>

query(a) == send("query", a, a.query, a.variables)
list_issues(a) == send("list_issues", a, "Issues", list_issues_variables(a))
search_issues(a) == send("search_issues", a, "Issues", search_issues_variables(a))
list_projects(a) == send("list_projects", a, "Projects", list_projects_variables(a))
list_teams(a) == send("list_teams", a, "Teams", list_teams_variables(a))
get_issue(a) == send("get_issue", a, "Issue", get_variables(a))
get_project(a) == send("get_project", a, "Project", get_variables(a))
get_team(a) == send("get_team", a, "Team", get_variables(a))

\* mutant: a failed request is sent again (up to three POSTs)
Respond_retry(resp) ==
    /\ pc = "posted"
    /\ response' = resp
    /\ LET r == operation_result(call, resp) IN
        IF r.kind = "raise" /\ Len(posts) < 3
        THEN posts' = Append(posts, posts[1]) /\ pc' = "posted" /\ UNCHANGED outcome
        ELSE posts' = posts /\ pc' = "done" /\ outcome' = r
    /\ UNCHANGED <<client, ctor, call, cliVars, editorVars, modelVars, groupVars>>

\* the response (or the connection failure) arrives: the rest of query, and of
\* the operation that called it, runs to its return or raise
Respond(resp) ==
    /\ pc = "posted"
    /\ response' = resp
    /\ outcome' = operation_result(call, resp)
    /\ pc' = "done"
    /\ UNCHANGED <<client, ctor, call, posts, cliVars, editorVars, modelVars, groupVars>>

\* the process ends; the next one starts with nothing
Exit ==
    /\ pc \in {"done", "failed"}
    /\ pc' = "start"
    /\ client' = PyNone
    /\ ctor' = PyNone
    /\ call' = PyNone
    /\ posts' = <<>>
    /\ response' = PyNone
    /\ outcome' = NoOutcome
    /\ UNCHANGED <<cliVars, editorVars, modelVars, groupVars>>

Next ==
    \/ \E k \in ApiKeyArgs, e \in EnvKeys : LinearClient_init(k, e)
    \/ \E a \in QueryCalls : query(a)
    \/ \E a \in PagingCalls : list_issues(a)
    \/ \E a \in SearchCalls : search_issues(a)
    \/ \E a \in ListProjectsCalls : list_projects(a)
    \/ \E a \in ListTeamsCalls : list_teams(a)
    \/ \E a \in GetCalls : get_issue(a)
    \/ \E a \in GetCalls : get_project(a)
    \/ \E a \in GetCalls : get_team(a)
    \/ \E resp \in Responses : Respond(resp)
    \/ Exit

Spec == Init /\ [][Next]_vars

\* the list_issues filter builder over every combination of its parameters
NextFilter ==
    \/ LinearClient_init(PyNone, PStr("lin_api_env"))
    \/ \E a \in FilterCalls : list_issues(a)
    \/ \E resp \in FilterResponses : Respond(resp)
    \/ Exit

SpecFilter == Init /\ [][NextFilter]_vars

(***************************************************************************)
(* Properties of the client.                                               *)
(***************************************************************************)
Range(q) == {q[i] : i \in DOMAIN q}

IsHttp(r) == r # PyNone /\ r.kind = "http"
IsJson2xx(r) == IsHttp(r) /\ r.status \in 200..299 /\ r.body # JInvalid

\* C2: every client operation sends at most one POST; when the response (or
\* the connection failure) arrives the operation ends in that same step with a
\* return or a raise and without another POST, and once it has failed no
\* further POST is sent.
C2_AtMostOnePostNoRetry ==
    [][/\ Len(posts') <= 1
       /\ (pc = "posted" =>
              /\ pc' = "done"
              /\ posts' = posts
              /\ outcome'.kind \in {"return", "raise"})
       /\ (outcome.kind = "raise" => Len(posts') <= Len(posts))]_vars

C2_Witness == pc = "done" /\ outcome.kind = "raise" /\ Len(posts) = 1

IsAuthenticationError(o) ==
    o.kind = "raise" /\ o.exc = "LinearClientError"
    /\ o.msg[1] = "Authentication failed. Check your API key."
IsRateLimitError(o) ==
    o.kind = "raise" /\ o.exc = "LinearClientError"
    /\ o.msg[1] = "Rate limit exceeded. Linear API allows "
IsHttpError(o) ==
    o.kind = "raise" /\ o.exc = "LinearClientError" /\ o.msg[1] = "HTTP error: "
IsNetworkError(o) ==
    o.kind = "raise" /\ o.exc = "LinearClientError" /\ o.msg[1] = "Network error: "

TransportKinds(o) ==
    {k \in {"Authentication", "RateLimit", "HTTP", "Network"} :
        \/ k = "Authentication" /\ IsAuthenticationError(o)
        \/ k = "RateLimit" /\ IsRateLimitError(o)
        \/ k = "HTTP" /\ IsHttpError(o)
        \/ k = "Network" /\ IsNetworkError(o)}

\* C3: 401 gives an Authentication error, 429 a Rate-Limit error whose message
\* holds the quota 1500, every other non-2xx status an HTTP error with the
\* status code and the body, a connection failure a Network error; each of
\* these failures is of exactly one kind.
C3_TransportErrorKinds ==
    pc = "done" =>
      /\ (IsHttp(response) /\ response.status = 401 =>
             TransportKinds(outcome) = {"Authentication"})
      /\ (IsHttp(response) /\ response.status = 429 =>
             /\ TransportKinds(outcome) = {"RateLimit"}
             /\ "1500" \in Range(outcome.msg))
      /\ (IsHttp(response) /\ response.status \notin 200..299
              /\ response.status \notin {401, 429} =>
             /\ TransportKinds(outcome) = {"HTTP"}
             /\ ToString(response.status) \in Range(outcome.msg)
             /\ outcome.msg[Len(outcome.msg)] = response.text)
      /\ (response.kind = "request_error" =>
             /\ TransportKinds(outcome) = {"Network"}
             /\ response.detail \in Range(outcome.msg))

C3_Witness ==
    pc = "done" /\ IsHttp(response) /\ response.status = 429 /\ outcome.kind = "raise"

\* the server messages of an errors list, joined by ", "
RECURSIVE C4_Joined(_)
C4_Joined(errors) ==
    IF errors = <<>> THEN ""
    ELSE LET last == errors[Len(errors)]
             text == IF "message" \in DOMAIN last THEN last["message"]
                     ELSE "{'code': '" \o last["code"] \o "'}"
             front == SubSeq(errors, 1, Len(errors) - 1)
         IN IF front = <<>> THEN text ELSE C4_Joined(front) \o ", " \o text

\* C4: a 2xx response whose JSON body has an "errors" key, with or without
\* "data" and whatever the length of the list, makes query raise an
\* Application error that carries the joined server messages; the data is
\* never returned.
C4_GraphQLErrorsRaise ==
    pc = "done" /\ IsJson2xx(response) /\ "errors" \in DOMAIN response.body.f =>
      /\ outcome.kind = "raise"
      /\ outcome.exc = "LinearClientError"
      /\ outcome.msg = <<"GraphQL errors: ", C4_Joined(response.body.f["errors"].l)>>

C4_Witness ==
    /\ pc = "done" /\ IsJson2xx(response)
    /\ DOMAIN response.body.f = {"errors", "data"}
    /\ Len(response.body.f["errors"].l) = 2
    /\ outcome.kind = "raise"

\* the response holds no entity for the lookup: no data, null data, or data
\* whose entity field is missing or null
NoEntity(r, field) ==
    \/ "data" \notin DOMAIN r.body.f
    \/ r.body.f["data"] = PyNone
    \/ /\ r.body.f["data"].t = "dict"
       /\ DictGet(r.body.f["data"], field, PyNone) = PyNone

\* C5: a single-entity lookup whose successful response holds no entity
\* raises a NotFound error that names the identifier, and returns nothing.
C5_NoEntityIsNotFound ==
    /\ pc = "done" /\ call.op \in GetOps /\ IsJson2xx(response)
    /\ "errors" \notin DOMAIN response.body.f
    /\ NoEntity(response, entity_field(call.op))
    => /\ outcome.kind = "raise"
       /\ outcome.exc = "LinearClientError"
       /\ outcome.msg[Len(outcome.msg)] = "' not found"
       /\ call.args.id.v \in Range(outcome.msg)

\* C6: with neither a non-empty api_key parameter nor a non-empty
\* LINEAR_API_KEY the constructor raises the Configuration error and no
\* request is ever sent; a non-empty api_key parameter is the Authorization
\* header of the client and of every request, whatever the environment holds.
C6_ApiKeyResolution ==
    ctor # PyNone =>
      /\ (~Truthy(ctor.api_key) /\ ~Truthy(ctor.env) =>
             /\ pc = "failed"
             /\ client = PyNone
             /\ outcome = Raise("LinearClientError", ConfigMessage)
             /\ posts = <<>>)
      /\ (pc = "failed" => posts = <<>>)
      /\ (Truthy(ctor.api_key) =>
             /\ client # PyNone
             /\ client.headers.Authorization = ctor.api_key
             /\ \A i \in DOMAIN posts : posts[i].headers.Authorization = ctor.api_key)

C6_Witness ==
    /\ pc = "posted" /\ Truthy(ctor.api_key) /\ Truthy(ctor.env)
    /\ posts[1].headers.Authorization = PStr("lin_api_arg")

ListOps == {"list_issues", "search_issues", "list_projects", "list_teams"}

\* C10: for every list operation and every limit >= 0 the `first` variable
\* of the request is min(limit, 250), and never more than 250.
C10_PageSizeIsMin ==
    pc \in {"posted", "done"} /\ call.op \in ListOps /\ call.args.limit >= 0 =>
      LET first == posts[1].json.variables.f.first
          limit == call.args.limit
      IN /\ first = (IF limit < 250 THEN limit ELSE 250)
         /\ first <= 250

C10_Witness ==
    /\ pc = "posted" /\ call.op = "list_teams" /\ call.args.limit = 251
    /\ posts[1].json.variables.f.first = 250

\* the filter keys a list_issues call must send: one for each parameter given
\* a non-empty value (any integer priority counts)
C9_ExpectedKeys(a) ==
    {k \in {"assignee", "project", "state", "team", "priority", "labels"} :
        \/ k = "assignee" /\ a.assignee \notin {PyNone, PStr("")}
        \/ k = "project" /\ a.project \notin {PyNone, PChars(<<>>)}
        \/ k = "state" /\ a.status \notin {PyNone, PStr("")}
        \/ k = "team" /\ a.team \notin {PyNone, PStr("")}
        \/ k = "priority" /\ a.priority # PyNone
        \/ k = "labels" /\ a.labels \notin {PyNone, PList(<<>>)}}

\* C9: the filter object of a list_issues request has exactly one key for
\* each parameter supplied non-empty and no key, not even a null one, for the
\* others.
C9_FilterKeysExact ==
    pc \in {"posted", "done"} /\ call.op = "list_issues" =>
      LET filter == posts[1].json.variables.f.filter
          keys == IF filter = PyNone THEN {} ELSE DOMAIN filter.f
      IN /\ keys = C9_ExpectedKeys(call.args)
         /\ \A k \in keys : filter.f[k] # PyNone

C9_Witness ==
    /\ pc = "posted" /\ call.op = "list_issues"
    /\ call.args.priority = PInt(0) /\ call.args.assignee = PStr("")
    /\ call.args.labels = PList(<<>>) /\ call.args.team = PStr("ENG")
    /\ DOMAIN posts[1].json.variables.f.filter.f = {"priority", "team"}

(***************************************************************************)
(* The editor round trip (utils/editor.py).                                *)
(***************************************************************************)
Whitespace == {" ", "\t", "\n"}

RECURSIVE lstrip(_)
lstrip(cs) == IF cs # <<>> /\ Head(cs) \in Whitespace THEN lstrip(Tail(cs)) ELSE cs

RECURSIVE rstrip(_)
rstrip(cs) ==
    IF cs # <<>> /\ cs[Len(cs)] \in Whitespace
    THEN rstrip(SubSeq(cs, 1, Len(cs) - 1))
    ELSE cs

\* str.strip()
strip(cs) == rstrip(lstrip(cs))

Digits == <<"0", "1", "2", "3", "4", "5", "6", "7", "8", "9">>
IsDigit(ch) == \E i \in DOMAIN Digits : Digits[i] = ch
DigitValue(ch) == (CHOOSE i \in DOMAIN Digits : Digits[i] = ch) - 1

RECURSIVE DigitsValue(_)
DigitsValue(cs) ==
    IF cs = <<>> THEN 0
    ELSE 10 * DigitsValue(SubSeq(cs, 1, Len(cs) - 1)) + DigitValue(cs[Len(cs)])

RECURSIVE NatChars(_)
NatChars(n) == IF n < 10 THEN <<Digits[n + 1]>> ELSE NatChars(n \div 10) \o <<Digits[(n % 10) + 1]>>

\* str(x) for the values a field can hold
str_of(x) ==
    CASE x.t = "chars" -> x.c
      [] x.t = "int" -> IF x.v < 0 THEN <<"-">> \o NatChars(-x.v) ELSE NatChars(x.v)
      [] x.t = "bool" -> IF x.v THEN <<"T", "r", "u", "e">> ELSE <<"F", "a", "l", "s", "e">>
      [] x.t = "float" ->
            (IF x.tenths < 0 THEN <<"-">> ELSE <<>>)
            \o NatChars((IF x.tenths < 0 THEN -x.tenths ELSE x.tenths) \div 10)
            \o <<".">>
            \o NatChars((IF x.tenths < 0 THEN -x.tenths ELSE x.tenths) % 10)
      [] x.t = "none" -> <<"N", "o", "n", "e">>
      [] x.t = "list" -> <<"[", "]">>

\* int(text): optional surrounding whitespace, optional sign, decimal digits
int_of_chars(cs) ==
    LET s == strip(cs)
        signed == s # <<>> /\ Head(s) \in {"+", "-"}
        body == IF signed THEN Tail(s) ELSE s
    IN IF body # <<>> /\ \A i \in DOMAIN body : IsDigit(body[i])
       THEN [ok |-> TRUE,
             v |-> IF signed /\ Head(s) = "-" THEN -DigitsValue(body) ELSE DigitsValue(body)]
       ELSE [ok |-> FALSE]

\* int(x): the integer, or not ok where Python raises ValueError or TypeError
py_int(x) ==
    CASE x.t = "int" -> [ok |-> TRUE, v |-> x.v]
      [] x.t = "bool" -> [ok |-> TRUE, v |-> IF x.v THEN 1 ELSE 0]
      [] x.t = "float" ->
            [ok |-> TRUE,
             v |-> IF x.tenths < 0 THEN -((-x.tenths) \div 10) ELSE x.tenths \div 10]
      [] x.t = "chars" -> int_of_chars(x.c)
      [] OTHER -> [ok |-> FALSE]

\* the text of a file, by what yaml.safe_load makes of it
BlankText == [kind |-> "blank"]             \* empty or whitespace only
InvalidYaml == [kind |-> "invalid"]         \* not YAML
YamlText(doc, comments) == [kind |-> "yaml", doc |-> doc, comments |-> comments]

\* editor.py 129-139: the read-only fields, appended as comments
readonly_comments(issue) ==
    (IF Truthy(issue.team_name) THEN <<[team |-> issue.team_name]>> ELSE <<>>)
    \o (IF Truthy(issue.assignee_email) THEN <<[assignee |-> issue.assignee_email]>> ELSE <<>>)
    \o (IF Truthy(issue.project_name) THEN <<[project |-> issue.project_name]>> ELSE <<>>)
    \o (IF Truthy(issue.labels) THEN <<[labels |-> issue.labels]>> ELSE <<>>)
    \o (IF Truthy(issue.state_name) THEN <<[state |-> issue.state_name]>> ELSE <<>>)

SetMin(S) == CHOOSE x \in S : \A y \in S : x <= y
SetMax(S) == CHOOSE x \in S : \A y \in S : x >= y

\* str.split("\n")
RECURSIVE split_lines(_)
split_lines(cs) ==
    LET breaks == {i \in DOMAIN cs : cs[i] = "\n"} IN
    IF breaks = {} THEN <<cs>>
    ELSE <<SubSeq(cs, 1, SetMin(breaks) - 1)>>
         \o split_lines(SubSeq(cs, SetMin(breaks) + 1, Len(cs)))

\* "\n".join(lines)
RECURSIVE join_lines(_)
join_lines(lines) ==
    IF lines = <<>> THEN <<>>
    ELSE IF Len(lines) = 1 THEN lines[1]
    ELSE lines[1] \o <<"\n">> \o join_lines(Tail(lines))

\* yaml.dump is called without `width`: lines are folded after column 80
YAML_WIDTH == 80
\* the column after "title: "
KEY_COLUMN == 7

\* yaml.dump writes a string plain unless it is empty, starts or ends with
\* whitespace, holds a line break or would read back as a number
needs_quotes(cs) ==
    \/ cs = <<>>
    \/ Head(cs) \in Whitespace \/ cs[Len(cs)] \in Whitespace
    \/ "\n" \in Range(cs)
    \/ \A i \in DOMAIN cs : IsDigit(cs[i])

\* the index of the space at which yaml.dump breaks the line of a scalar that
\* starts at column col: the first single space reached after YAML_WIDTH
fold_at(cs, col) ==
    LET at == {i \in 2..(Len(cs) - 1) :
                  /\ cs[i] = " " /\ cs[i - 1] # " " /\ cs[i + 1] # " "
                  /\ col + i - 1 > YAML_WIDTH}
    IN IF at = {} THEN 0 ELSE SetMin(at)

\* editor.py 76-93: of the dumped title only the line that starts with
\* "title:" is kept; `complete` tells whether the scalar ended on that line
title_line(title) ==
    LET cs == title.c
        quoted == needs_quotes(cs)
        fold == fold_at(cs, KEY_COLUMN + (IF quoted THEN 1 ELSE 0))
        breaks == {i \in DOMAIN cs : cs[i] = "\n"} \cup (IF fold = 0 THEN {} ELSE {fold})
    IN [quoted |-> quoted,
        text |-> IF breaks = {} THEN cs ELSE SubSeq(cs, 1, SetMin(breaks) - 1),
        complete |-> breaks = {}]

\* editor.py 95-101: "description: |" and the lines of the description,
\* each after two spaces; or "description: null"
description_block(description) ==
    IF Truthy(description)
    THEN PList([i \in DOMAIN split_lines(description.c) |->
                   <<" ", " ">> \o split_lines(description.c)[i]])
    ELSE PyNone

\* yaml.dump of an int or of None
scalar_text(x) == IF x = PyNone THEN <<"n", "u", "l", "l">> ELSE str_of(x)

\* editor.py 67-141: the text written to the file, line by line
serialize_to_yaml(issue) ==
    [kind |-> "lines",
     title |-> title_line(issue.title),
     description |-> description_block(issue.description),
     priority |-> scalar_text(issue.priority),
     estimate |-> scalar_text(issue.estimate),
     comments |-> readonly_comments(issue)]

IsBlankLine(line) == \A i \in DOMAIN line : line[i] = " "
Indent(line) ==
    IF IsBlankLine(line) THEN Len(line)
    ELSE SetMin({i \in DOMAIN line : line[i] # " "}) - 1

\* yaml.safe_load of a literal block scalar (`|`): the indentation is that of
\* the first non-empty line, a later non-empty line indented less is an
\* error, trailing empty lines are dropped and one line break ends the text
load_block(lines) ==
    LET nonblank == {i \in DOMAIN lines : ~IsBlankLine(lines[i])}
        n == Indent(lines[SetMin(nonblank)])
        content == [i \in 1..SetMax(nonblank) |->
                       IF Len(lines[i]) >= n THEN SubSeq(lines[i], n + 1, Len(lines[i]))
                       ELSE <<>>]
    IN IF nonblank = {} THEN Return(PChars(<<>>))
       ELSE IF \/ \E i \in nonblank : Indent(lines[i]) < n
               \/ \E i \in 1..(SetMin(nonblank) - 1) : Len(lines[i]) > n
       THEN Raise("ValueError", <<"Invalid YAML syntax">>)
       ELSE Return(PChars(join_lines(content) \o <<"\n">>))

\* yaml.safe_load of a scalar written by yaml.dump
load_scalar(text) ==
    IF text = <<"n", "u", "l", "l">> THEN PyNone ELSE PInt(int_of_chars(text).v)

\* yaml.safe_load of the serialized text: a quoted title that does not end
\* on its line is a syntax error
yaml_safe_load(text) ==
    LET description == IF text.description = PyNone THEN Return(PyNone)
                       ELSE load_block(text.description.l)
    IN IF text.title.quoted /\ ~text.title.complete
       THEN Raise("ValueError", <<"Invalid YAML syntax">>)
       ELSE IF description.kind = "raise" THEN description
       ELSE Return(PDict([title |-> PChars(text.title.text),
                          description |-> description.value,
                          priority |-> load_scalar(text.priority),
                          estimate |-> load_scalar(text.estimate)]))

\* mutant: the content is returned without the check that it is not blank
read_temp_file_no_blank_check(file) ==
    IF file = PyNone
    THEN Raise("FileNotFoundError", <<"Temporary file was deleted during editing">>)
    ELSE IF file = BlankText THEN Return(YamlText(PyNone, <<>>))
    ELSE Return(file)

\* editor.py 176-187
read_temp_file(file) ==
    IF file = PyNone
    THEN Raise("FileNotFoundError", <<"Temporary file was deleted during editing">>)
    ELSE IF file = BlankText THEN Raise("ValueError", <<"Edited file is empty">>)
    ELSE Return(file)

\* editor.py 190-198
parse_yaml_content(content) ==
    IF content.kind = "lines" THEN yaml_safe_load(content)
    ELSE IF content = InvalidYaml THEN Raise("ValueError", <<"Invalid YAML syntax">>)
    ELSE IF content.doc = PyNone
    THEN Raise("ValueError", <<"YAML file is empty or contains only comments">>)
    ELSE Return(content.doc)

\* mutant: the original's priority is returned unchecked when the key is absent
validate_priority_edited_only(original, edited) ==
    IF "priority" \notin DOMAIN edited.f
    THEN Return(IF original.priority = PyNone THEN PInt(0) ELSE original.priority)
    ELSE LET priority == edited.f["priority"] IN
         IF priority = PyNone THEN Return(PInt(0))
         ELSE LET n == py_int(priority) IN
              IF ~n.ok THEN Raise("ValueError", <<"Priority must be a number">>)
              ELSE IF n.v < 0 \/ n.v > 4
              THEN Raise("ValueError", <<"Priority must be between 0 and 4">>)
              ELSE Return(PInt(n.v))

\* editor.py 213-226: the priority, or the ValueError
validate_priority(original, edited) ==
    LET priority == DictGet(edited, "priority", original.priority) IN
    IF priority = PyNone THEN Return(PInt(0))
    ELSE LET n == py_int(priority) IN
         IF ~n.ok THEN Raise("ValueError", <<"Priority must be a number">>)
         ELSE IF n.v < 0 \/ n.v > 4
         THEN Raise("ValueError", <<"Priority must be between 0 and 4">>)
         ELSE Return(PInt(n.v))

\* editor.py 228-236: the estimate, or the ValueError
validate_estimate(edited) ==
    LET estimate == DictGet(edited, "estimate", PyNone) IN
    IF estimate = PyNone THEN Return(PyNone)
    ELSE LET n == py_int(estimate) IN
         IF ~n.ok THEN Raise("ValueError", <<"Estimate must be a number">>)
         ELSE IF n.v < 0 THEN Raise("ValueError", <<"Estimate must be non-negative">>)
         ELSE Return(PInt(n.v))

\* editor.py 208-211
validate_description(edited) ==
    LET description == DictGet(edited, "description", PyNone) IN
    IF description = PyNone THEN PyNone
    ELSE LET text == strip(str_of(description)) IN
         IF text = <<>> THEN PyNone ELSE PChars(text)

\* mutant: the title is checked and returned without .strip()
validate_and_merge_title_not_trimmed(original, edited) ==
    IF edited.t # "dict"
    THEN Raise("AttributeError", <<"object has no attribute 'get'">>)
    ELSE LET title == DictGet(edited, "title", PyNone) IN
         IF ~Truthy(title)
         THEN Raise("ValueError", <<"Title cannot be empty">>)
         ELSE LET priority == validate_priority(original, edited)
                  estimate == validate_estimate(edited)
              IN IF priority.kind = "raise" THEN priority
                 ELSE IF estimate.kind = "raise" THEN estimate
                 ELSE Return([title |-> PChars(str_of(title)),
                              description |-> validate_description(edited),
                              priority |-> priority.value,
                              estimate |-> estimate.value,
                              team_name |-> original.team_name,
                              assignee_email |-> original.assignee_email,
                              project_name |-> original.project_name,
                              labels |-> original.labels,
                              state_name |-> original.state_name])

\* mutant: the read-only fields are taken from the edited mapping when it has them
validate_and_merge_edited_metadata(original, edited) ==
    IF edited.t # "dict"
    THEN Raise("AttributeError", <<"object has no attribute 'get'">>)
    ELSE LET title == DictGet(edited, "title", PyNone) IN
         IF ~Truthy(title) \/ strip(str_of(title)) = <<>>
         THEN Raise("ValueError", <<"Title cannot be empty">>)
         ELSE LET priority == validate_priority(original, edited)
                  estimate == validate_estimate(edited)
              IN IF priority.kind = "raise" THEN priority
                 ELSE IF estimate.kind = "raise" THEN estimate
                 ELSE Return([title |-> PChars(strip(str_of(title))),
                              description |-> validate_description(edited),
                              priority |-> priority.value,
                              estimate |-> estimate.value,
                              team_name |-> DictGet(edited, "team_name", original.team_name),
                              assignee_email |-> DictGet(edited, "assignee_email", original.assignee_email),
                              project_name |-> DictGet(edited, "project_name", original.project_name),
                              labels |-> DictGet(edited, "labels", original.labels),
                              state_name |-> DictGet(edited, "state_name", original.state_name)])

\* editor.py 201-250
validate_and_merge(original, edited) ==
    IF edited.t # "dict"
    THEN Raise("AttributeError", <<"object has no attribute 'get'">>)
    ELSE LET title == DictGet(edited, "title", PyNone) IN
         IF ~Truthy(title) \/ strip(str_of(title)) = <<>>
         THEN Raise("ValueError", <<"Title cannot be empty">>)
         ELSE LET priority == validate_priority(original, edited)
                  estimate == validate_estimate(edited)
              IN IF priority.kind = "raise" THEN priority
                 ELSE IF estimate.kind = "raise" THEN estimate
                 ELSE Return([title |-> PChars(strip(str_of(title))),
                              description |-> validate_description(edited),
                              priority |-> priority.value,
                              estimate |-> estimate.value,
                              team_name |-> original.team_name,
                              assignee_email |-> original.assignee_email,
                              project_name |-> original.project_name,
                              labels |-> original.labels,
                              state_name |-> original.state_name])

\* editor.py 171-173 and 54-59: from the editor's exit to the return or raise
after_editor(original, returncode, file) ==
    IF returncode # 0
    THEN Raise("RuntimeError", <<"Editor exited with code ", ToString(returncode)>>)
    ELSE LET content == read_temp_file(file) IN
         IF content.kind = "raise" THEN content
         ELSE LET edited == parse_yaml_content(content.value) IN
              IF edited.kind = "raise" THEN edited
              ELSE validate_and_merge(original, edited.value)

\* mutant: the file is read and parsed before the exit code is looked at
after_editor_calls_read_first(original, returncode, file) ==
    LET content == read_temp_file(file) IN
    <<"_read_temp_file">>
    \o IF content.kind = "raise" THEN <<>>
       ELSE <<"_parse_yaml_content">>
            \o IF returncode # 0 \/ parse_yaml_content(content.value).kind = "raise"
               THEN <<>>
               ELSE <<"_validate_and_merge">>

\* editor.py 171-173 and 54-59: the steps called from the editor's exit on,
\* each one only when the one before it returned
after_editor_calls(original, returncode, file) ==
    IF returncode # 0 THEN <<>>
    ELSE LET content == read_temp_file(file) IN
         <<"_read_temp_file">>
         \o IF content.kind = "raise" THEN <<>>
            ELSE <<"_parse_yaml_content">>
                 \o IF parse_yaml_content(content.value).kind = "raise" THEN <<>>
                    ELSE <<"_validate_and_merge">>

\* editor.py 44-52, 144-173: the steps called up to the launch of the editor
launch_calls(fs, editor_found) ==
    <<"_serialize_to_yaml", "_write_temp_file">>
    \o IF fs # "ok" THEN <<>>
       ELSE <<"_open_editor">>
            \o IF editor_found THEN <<"subprocess.run">> ELSE <<>>

\* mutant: the file is removed only when the flow succeeds
cleanup_on_success_only(file, result) == IF result.kind = "return" THEN PyNone ELSE file

\* editor.py 61-64: finally: if os.path.exists(temp_path): os.unlink(temp_path)
cleanup(file, result) == IF file # PyNone THEN PyNone ELSE file

(***************************************************************************)
(* Inputs of the editor flow: the records edited, what the file system     *)
(* does, and what the user leaves in the file.                             *)
(***************************************************************************)
IssueDatas ==
    [title : {PChars(<<"F", "i", "x">>)},
     description : {PyNone, PChars(<<"a", "\n", "b">>)},
     priority : {PInt(0), PInt(2)},
     estimate : {PInt(3)},
     team_name : {PStr("Engineering")},
     assignee_email : {PyNone, PStr("ann@example.com")},
     project_name : {PyNone},
     labels : {PList(<<"bug">>)},
     state_name : {PStr("Todo")}]

Absent == [t |-> "absent"]      \* the key is not in the edited mapping
Opt(key, value) == IF value = Absent THEN EmptyDict ELSE key :> value

TitleEdits ==
    {Absent, PyNone, PChars(<<>>), PChars(<<" ">>), PChars(<<" ", "N", "e", "w", " ">>),
     PInt(7)}
DescriptionEdits == {Absent, PChars(<<" ", "d", " ">>), PChars(<<" ">>)}
PriorityEdits ==
    {Absent, PyNone, PInt(-1), PInt(0), PInt(4), PInt(5), PChars(<<"3">>),
     PChars(<<"h", "i">>), PBool(TRUE), PFloat(25), PList(<<>>)}
EstimateEdits ==
    {Absent, PyNone, PInt(0), PInt(5), PInt(-2), PChars(<<"8">>), PChars(<<"x">>),
     PFloat(25), PFloat(-5)}

\* a mapping that also sets the read-only fields
MetadataEdit ==
    PDict([title |-> PChars(<<"F", "i", "x">>), team_name |-> PStr("Design"),
           assignee_email |-> PStr("bob@example.com"), project_name |-> PStr("Web"),
           labels |-> PList(<<"chore">>), state_name |-> PStr("Done")])

EditedDocs ==
    {PyNone, PList(<<"title">>), PChars(<<"F", "i", "x">>), MetadataEdit}
    \cup {PDict(Opt("title", t) @@ Opt("description", d)
                @@ Opt("priority", p) @@ Opt("estimate", e)) :
              t \in TitleEdits, d \in DescriptionEdits,
              p \in PriorityEdits, e \in EstimateEdits}

Unchanged == [kind |-> "unchanged"]     \* the user saves nothing
Edits ==
    {Unchanged, PyNone, BlankText, InvalidYaml}
    \cup {YamlText(d, <<>>) : d \in EditedDocs}

FileSystemResults == {"ok", "create_fails", "write_fails"}
ExitCodes == {0, 1}

(***************************************************************************)
(* edit_issue_in_editor (editor.py 30-64) as a state machine: up to the    *)
(* launch of the editor, then from the editor's exit to the end.           *)
(***************************************************************************)
\* editor.py 44-52 and 144-173: serialize, write the temp file, find the editor
\* and launch it; a failure on the way ends the call
edit_issue_in_editor(issue, fs, editor_found) ==
    /\ epc = "idle"
    /\ issue_data' = issue
    /\ edit' = PyNone
    /\ ecalls' = launch_calls(fs, editor_found)
    /\ LET content == serialize_to_yaml(issue)
           os_error == Raise("OSError", <<"Failed to create temporary file">>)
           no_editor == Raise("FileNotFoundError", <<"Editor not found in PATH">>)
       IN CASE fs = "create_fails" ->
                 temp_file' = PyNone /\ eoutcome' = os_error /\ epc' = "done"
            [] fs = "write_fails" ->
                 temp_file' = BlankText /\ eoutcome' = os_error /\ epc' = "done"
            [] fs = "ok" /\ ~editor_found ->
                 /\ temp_file' = cleanup(content, no_editor)
                 /\ eoutcome' = no_editor
                 /\ epc' = "done"
            [] fs = "ok" /\ editor_found ->
                 temp_file' = content /\ eoutcome' = NoOutcome /\ epc' = "editing"
    /\ UNCHANGED <<clientVars, cliVars, modelVars, groupVars>>

\* editor.py 171-173, 54-64: the editor exits, having left `left` in the file
editor_exits(returncode, left) ==
    /\ epc = "editing"
    /\ LET file == IF left = Unchanged THEN temp_file ELSE left
           result == after_editor(issue_data, returncode, file)
       IN /\ edit' = [returncode |-> returncode, file |-> file]
          /\ eoutcome' = result
          /\ temp_file' = cleanup(file, result)
          /\ ecalls' = ecalls \o after_editor_calls(issue_data, returncode, file)
    /\ epc' = "done"
    /\ UNCHANGED <<issue_data, clientVars, cliVars, modelVars, groupVars>>

\* the caller has the result; the next call starts afresh
edit_done ==
    /\ epc = "done"
    /\ epc' = "idle"
    /\ issue_data' = PyNone
    /\ temp_file' = PyNone
    /\ edit' = PyNone
    /\ eoutcome' = NoOutcome
    /\ ecalls' = <<>>
    /\ UNCHANGED <<clientVars, cliVars, modelVars, groupVars>>

NextEditor ==
    \/ \E issue \in IssueDatas, fs \in FileSystemResults, found \in BOOLEAN :
          edit_issue_in_editor(issue, fs, found)
    \/ \E rc \in ExitCodes, left \in Edits : editor_exits(rc, left)
    \/ edit_done

SpecEditor == Init /\ [][NextEditor]_vars

(***************************************************************************)
(* Properties of the editor flow.                                          *)
(***************************************************************************)
\* C1: when edit_issue_in_editor ends by success, by a validation failure or
\* by an editor failure (editor missing, non-zero exit), the temporary file
\* of the run no longer exists.
C1_TempFileRemoved ==
    /\ epc = "done"
    /\ \/ eoutcome.kind = "return"
       \/ /\ eoutcome.kind = "raise"
          /\ eoutcome.exc \in {"ValueError", "FileNotFoundError", "RuntimeError"}
    => temp_file = PyNone

C1_Witness ==
    /\ epc = "done" /\ eoutcome.kind = "raise" /\ eoutcome.exc = "ValueError"
    /\ edit # PyNone /\ edit.file # PyNone /\ edit.returncode = 0
    /\ temp_file = PyNone

(***************************************************************************)
(* The presenters (linear/formatters.py).  A text is a sequence of tokens: *)
(* OpenTag and CloseTag are console markup, every other token is literal.  *)
(* A presenter is the sequence of prints it attempts, in order.            *)
(***************************************************************************)
OpenTag == "[b]"
CloseTag == "[/b]"

\* rich.markup.escape: a tag becomes literal text
escape(text) ==
    [i \in DOMAIN text |->
        IF text[i] \in {OpenTag, CloseTag} THEN "\\" \o text[i] ELSE text[i]]

\* rendering markup fails on a closing tag that closes nothing; a tag left
\* open is closed at the end of the text
RECURSIVE closes_nothing(_, _)
closes_nothing(text, open) ==
    IF text = <<>> THEN FALSE
    ELSE IF Head(text) = OpenTag THEN closes_nothing(Tail(text), open + 1)
    ELSE IF Head(text) = CloseTag
    THEN open = 0 \/ closes_nothing(Tail(text), open - 1)
    ELSE closes_nothing(Tail(text), open)

markup_error(text) == closes_nothing(text, 0)

\* console.print(text): one print of one text, rendered as markup
console_print(text) == [markup |-> TRUE, rows |-> <<<<text>>>>]

\* console.print(table): one print, every cell rendered as markup
table_print(rows) == [markup |-> TRUE, rows |-> rows]

\* print(json.dumps(...)): one print of plain text
json_print(rows) == [markup |-> FALSE, rows |-> rows]

print_raises(p) ==
    /\ p.markup
    /\ \E i \in DOMAIN p.rows : \E j \in DOMAIN p.rows[i] : markup_error(p.rows[i][j])

Bold(text) == <<OpenTag>> \o text \o <<CloseTag>>
Line(name) == Bold(<<name>>) \o <<"...">>
NoneFound == Bold(<<"No items found.">>)
Total == Bold(<<"Total">>)
DescriptionHeader == Bold(<<"Description:">>)

has_description(e) == Truthy(e.description)

description_prints(e) ==
    IF has_description(e)
    THEN <<console_print(DescriptionHeader), console_print(e.description.c)>>
    ELSE <<>>

fixed_prints(names) == [i \in DOMAIN names |-> console_print(Line(names[i]))]

\* formatters.py 14-56: the title cell is escaped
format_table(issues) ==
    IF issues = <<>> THEN <<console_print(NoneFound)>>
    ELSE <<table_print([i \in DOMAIN issues |->
                <<issues[i].identifier, escape(issues[i].title), <<"...">>>>]),
           console_print(Total)>>

\* formatters.py 202-244, 338-384, 557-613, 719-773: the name cell is not escaped
format_entities_table(items) ==
    IF items = <<>> THEN <<console_print(NoneFound)>>
    ELSE <<table_print([i \in DOMAIN items |->
                <<items[i].identifier, items[i].title, <<"...">>>>]),
           console_print(Total)>>

\* formatters.py 185-199, 247-263, 387-399, 616-630, 776-788 and the
\* single-entity forms 328-335, 443-450, 547-554, 709-716, 849-856
format_json(items) ==
    <<json_print([i \in DOMAIN items |->
          <<items[i].identifier, items[i].title,
            IF has_description(items[i]) THEN items[i].description.c ELSE <<>>>>])>>

\* formatters.py 453-544, for an issue without optional relations: the
\* title is escaped, the description is printed as markup
format_issue_detail(issue) ==
    <<console_print(Bold(issue.identifier) \o <<": ">> \o escape(issue.title))>>
    \o fixed_prints(<<"url", "Status", "Priority", "Assignee", "Team",
                      "Created", "Updated">>)
    \o description_prints(issue)

\* formatters.py 266-325
format_project_detail(project) ==
    <<console_print(Bold(project.title))>>
    \o fixed_prints(<<"url", "State", "Progress", "Lead", "Created", "Updated">>)
    \o description_prints(project)

\* formatters.py 402-440
format_team_detail(team) ==
    <<console_print(Bold(team.title \o team.identifier))>>
    \o fixed_prints(<<"Team Key", "Private", "Cycles Enabled", "Created", "Updated">>)
    \o description_prints(team)

\* formatters.py 633-706
format_cycle_detail(cycle) ==
    <<console_print(Bold(cycle.title) \o Bold(cycle.identifier))>>
    \o fixed_prints(<<"Team", "Status", "Progress", "Start Date", "End Date",
                      "Created", "Updated">>)
    \o description_prints(cycle)

\* formatters.py 791-846: the bio comes before the dates
format_user_detail(user) ==
    <<console_print(Bold(user.title))>>
    \o fixed_prints(<<"email", "Status", "Role">>)
    \o description_prints(user)
    \o fixed_prints(<<"Joined", "Last Updated">>)

(***************************************************************************)
(* The typed records (linear/models.py) and the response mapper.  A record *)
(* keeps the fields the presenters print: identifier (identifier, key or   *)
(* number), title (title, name or display name) and description.           *)
(***************************************************************************)
RequiredFields == {"identifier", "title"}

\* models.py 290-322 (Issue) and 39-58, 73-90, 150-173, 210-236: the
\* required fields must be present, an optional field defaults to None
model_validate(json) ==
    IF json.t # "dict" \/ ~(RequiredFields \subseteq DOMAIN json.f)
    THEN Raise("ValidationError", <<"Field required">>)
    ELSE Return([identifier |-> json.f["identifier"].c,
                 title |-> json.f["title"].c,
                 description |-> DictGet(json, "description", PyNone)])

\* parse_*_response: the connection under `plural` is flattened to the list
\* of its nodes as typed records; an absent wrapper is an empty list
parse_response(plural, data) ==
    LET wrapper == IF data.t = "dict" THEN DictGet(data, plural, PyNone) ELSE PyNone
        nodes == IF wrapper.t = "dict" /\ "nodes" \in DOMAIN wrapper.f
                 THEN wrapper.f["nodes"].l ELSE <<>>
        records == [i \in DOMAIN nodes |-> model_validate(nodes[i])]
        invalid == {i \in DOMAIN nodes : records[i].kind = "raise"}
    IN IF invalid # {} THEN records[CHOOSE i \in invalid : \A j \in invalid : i <= j]
       ELSE Return([i \in DOMAIN nodes |-> records[i].value])

\* the single entity of a get response as the typed record the presenter takes
parse_entity(field, data) == model_validate(data.f[field])

(***************************************************************************)
(* The commands (linear/cli.py).                                           *)
(***************************************************************************)
ListCommands ==
    {"issues list", "issues search", "projects list", "teams list",
     "cycles list", "users list"}
GetCommands == {"issues get", "projects get", "teams get", "cycles get", "users get"}
Commands == ListCommands \cup GetCommands

\* the client operation a command calls
command_op(c) ==
    CASE c = "issues list" -> "list_issues"
      [] c = "issues search" -> "search_issues"
      [] c = "issues get" -> "get_issue"
      [] c = "projects list" -> "list_projects"
      [] c = "projects get" -> "get_project"
      [] c = "teams list" -> "list_teams"
      [] c = "teams get" -> "get_team"
      [] c = "cycles list" -> "list_cycles"
      [] c = "cycles get" -> "get_cycle"
      [] c = "users list" -> "list_users"
      [] c = "users get" -> "get_user"

\* the field of the response data that holds the command's result
command_field(c) ==
    CASE c \in {"issues list", "issues search"} -> "issues"
      [] c = "issues get" -> "issue"
      [] c = "projects list" -> "projects"
      [] c = "projects get" -> "project"
      [] c = "teams list" -> "teams"
      [] c = "teams get" -> "team"
      [] c = "cycles list" -> "cycles"
      [] c = "cycles get" -> "cycle"
      [] c = "users list" -> "users"
      [] c = "users get" -> "user"

\* the commands declared with a positional typer.Argument, and with --limit
takes_argument(c) == c \in GetCommands \cup {"issues search"}
has_limit(c) == c \in ListCommands
DEFAULT_LIMIT == 50

\* typer's reading of the command line: a missing or an extra positional
\* argument, an option the command does not declare and a --limit that is
\* not an integer are usage errors; the command function is not called
typer_parse(c, argv) ==
    LET limit == IF argv.limit = PyNone THEN [ok |-> TRUE, v |-> DEFAULT_LIMIT]
                 ELSE int_of_chars(argv.limit.c)
    IN IF takes_argument(c) # (argv.positional # PyNone) THEN [ok |-> FALSE]
       ELSE IF ~has_limit(c) /\ argv.limit # PyNone THEN [ok |-> FALSE]
       ELSE IF ~limit.ok THEN [ok |-> FALSE]
       ELSE [ok |-> TRUE, id |-> argv.positional,
             limit |-> IF has_limit(c) THEN limit.v ELSE 0]

UsageMessage == <<"Usage: linear [OPTIONS] COMMAND [ARGS]...", "Error: ">>

\* list_cycles, get_cycle, list_users, get_user of the client: one query;
\* a lookup without an entity is a not-found error naming the identifier
cycles_users_result(op, id, resp) ==
    LET r == query_result(resp)
        field == IF op = "get_cycle" THEN "cycle" ELSE "user"
        label == IF op = "get_cycle" THEN "Cycle" ELSE "User"
    IN IF r.kind = "raise" \/ op \in {"list_cycles", "list_users"} THEN r
       ELSE IF r.value.t # "dict" \/ ~Truthy(DictGet(r.value, field, PyNone))
       THEN Raise("LinearClientError", <<label \o " '", id.v, "' not found">>)
       ELSE r

\* response = client.<operation>(...)
client_call(c, args, resp) ==
    IF command_op(c) \in {"list_cycles", "get_cycle", "list_users", "get_user"}
    THEN cycles_users_result(command_op(c), args.id, resp)
    ELSE operation_result([op |-> command_op(c), args |-> [id |-> args.id]], resp)

\* the records the presenter is given: parse_*_response(response) in a list
\* command, the entity of the response in a get command
records_of(c, data) ==
    IF c \in ListCommands THEN parse_response(command_field(c), data)
    ELSE parse_entity(command_field(c), data)

\* if format == "json": format_*json(...) else: the table or the detail
presenter(c, fmt, records) ==
    IF fmt = "json"
    THEN format_json(IF c \in ListCommands THEN records ELSE <<records>>)
    ELSE CASE c \in {"issues list", "issues search"} -> format_table(records)
           [] c \in ListCommands \ {"issues list", "issues search"} ->
                  format_entities_table(records)
           [] c = "issues get" -> format_issue_detail(records)
           [] c = "projects get" -> format_project_detail(records)
           [] c = "teams get" -> format_team_detail(records)
           [] c = "cycles get" -> format_cycle_detail(records)
           [] c = "users get" -> format_user_detail(records)

\* the prints of a presenter as they reach the output: the first print that
\* fails to render raises, and the prints before it stay printed
run_presenter(prints) ==
    LET bad == {i \in DOMAIN prints : print_raises(prints[i])}
        first == IF bad = {} THEN 0 ELSE CHOOSE i \in bad : \A j \in bad : i <= j
    IN IF first = 0 THEN [printed |-> prints, result |-> Return(PyNone)]
       ELSE [printed |-> SubSeq(prints, 1, first - 1),
             result |-> Raise("MarkupError",
                              <<"closing tag '", CloseTag, "' doesn't match any open tag">>)]

\* mutant: the LinearClientError handler prints the message and returns
handle_exception_no_exit(e) ==
    IF e.exc = "LinearClientError"
    THEN [stderr |-> <<"Error: ">> \o e.msg, exit_status |-> 0]
    ELSE [stderr |-> <<"Unexpected error: ">> \o e.msg, exit_status |-> 1]

\* cli.py 134-139 (and the same two handlers of every command):
\*   except LinearClientError as e: typer.echo(f"Error: {e}", err=True); sys.exit(1)
\*   except Exception as e: typer.echo(f"Unexpected error: {e}", err=True); sys.exit(1)
handle_exception(e) ==
    IF e.exc = "LinearClientError"
    THEN [stderr |-> <<"Error: ">> \o e.msg, exit_status |-> 1]
    ELSE [stderr |-> <<"Unexpected error: ">> \o e.msg, exit_status |-> 1]

\* a command that stopped at `step` with exception e and `printed` on the
\* output, after the client returned or raised r
failed(step, r, e, printed) ==
    [step |-> step, result |-> r, error |-> e, stdout |-> printed,
     stderr |-> handle_exception(e).stderr,
     exit_status |-> handle_exception(e).exit_status]

\* cli.py 108-139 (list_issues) and the same body of the other commands:
\* construct the client, call it, map the response, present the records
command_body(c, args, fmt, env_key, resp) ==
    LET made == LinearClient_new(PyNone, env_key) IN
    IF made.kind = "raise" THEN failed("client", made, made, <<>>)
    ELSE LET r == client_call(c, args, resp) IN
    IF r.kind = "raise" THEN failed("client", r, r, <<>>)
    ELSE LET records == records_of(c, r.value) IN
    IF records.kind = "raise" THEN failed("parse", r, records, <<>>)
    ELSE LET shown == run_presenter(presenter(c, fmt, records.value)) IN
    IF shown.result.kind = "raise"
    THEN failed("format", r, shown.result, shown.printed)
    ELSE [step |-> "done", result |-> r, error |-> NoOutcome, stdout |-> shown.printed,
          stderr |-> <<>>, exit_status |-> 0]

(***************************************************************************)
(* Inputs of the commands.                                                 *)
(***************************************************************************)
Texts == {<<"t">>, Bold(<<"t">>), <<"t", CloseTag>>}
Formats == {"json", "table", "detail"}
LimitArgs == {PyNone, PChars(<<"1", "0">>), PChars(<<"a", "b", "c">>)}
Argvs == [limit : LimitArgs, positional : {PyNone, PStr("ENG-1")}]

JsonEntities ==
    {PDict(("identifier" :> PChars(<<"ENG-1">>)) @@ ("title" :> PChars(t))
           @@ ("description" :> d)) :
        t \in Texts, d \in {PyNone} \cup {PChars(x) : x \in Texts}}
    \cup {PDict("identifier" :> PChars(<<"ENG-1">>))}

PlainEntity ==
    PDict(("identifier" :> PChars(<<"ENG-1">>)) @@ ("title" :> PChars(<<"t">>)))

NodeLists ==
    {<<>>} \cup {<<e>> : e \in JsonEntities}
    \cup {<<PlainEntity, e>> : e \in JsonEntities}

CliData(c) ==
    {PyNone, PDict(EmptyDict)}
    \cup IF c \in ListCommands
         THEN {PDict(command_field(c) :> PDict("nodes" :> PList(n))) : n \in NodeLists}
         ELSE {PDict(command_field(c) :> e) : e \in {PyNone} \cup JsonEntities}

\* the answers of the server to the one request of a command
CliResponses(c) ==
    {[kind |-> "request_error", detail |-> "timed out"]}
    \cup [kind : {"http"}, status : {401, 429, 500}, text : {""}, body : {JInvalid}]
    \cup [kind : {"http"}, status : {200}, text : {""},
          body : {JInvalid, PDict("errors" :> PList(<<"message" :> "Entity not found">>))}
                 \cup {PDict("data" :> d) : d \in CliData(c)}]

(***************************************************************************)
(* One run of a command, from the command line to the exit status.         *)
(***************************************************************************)
run_command(c, argv, fmt, env_key, resp) ==
    /\ exit_status = -1
    /\ LET args == typer_parse(c, argv) IN
       IF ~args.ok
       THEN /\ cmd' = [name |-> c, argv |-> argv, step |-> "usage",
                       result |-> NoOutcome, error |-> NoOutcome]
            /\ stdout' = <<>>
            /\ stderr' = UsageMessage
            /\ exit_status' = 2
       ELSE LET b == command_body(c, args, fmt, env_key, resp) IN
            /\ cmd' = [name |-> c, argv |-> argv, format |-> fmt, env_key |-> env_key,
                       response |-> resp, step |-> b.step, result |-> b.result,
                       error |-> b.error]
            /\ stdout' = b.stdout
            /\ stderr' = b.stderr
            /\ exit_status' = b.exit_status
    /\ UNCHANGED <<clientVars, editorVars, modelVars, groupVars>>

\* the process ends; the next run starts from nothing
process_exit ==
    /\ exit_status # -1
    /\ cmd' = PyNone
    /\ stdout' = <<>>
    /\ stderr' = <<>>
    /\ exit_status' = -1
    /\ UNCHANGED <<clientVars, editorVars, modelVars, groupVars>>

NextCli ==
    \/ \E c \in Commands, argv \in Argvs, fmt \in Formats, env_key \in EnvKeys :
           \E resp \in CliResponses(c) : run_command(c, argv, fmt, env_key, resp)
    \/ process_exit

SpecCli == Init /\ [][NextCli]_vars

(***************************************************************************)
(* Properties of the commands.                                             *)
(***************************************************************************)
Ran == exit_status # -1
ClientRaised == cmd.step # "usage" /\ cmd.result.kind = "raise"
Rendered == cmd.step = "done"

\* C7 as stated: every command exits with status 0 when the API call
\* succeeded and its result was rendered, and with status 1 and a message on
\* the error stream when the client raised an error; no other exit status is
\* produced.
C7_OnlyZeroOrOne ==
    Ran =>
        /\ exit_status \in {0, 1}
        /\ Rendered => exit_status = 0
        /\ ClientRaised => exit_status = 1 /\ stderr # <<>>

\* C7 (amended): a command exits with status 0 when the API call succeeded
\* and its result was rendered, and with status 1 and the error's message on
\* the error stream when the client raised an error; a command line that
\* typer rejects exits with status 2 and a usage message on the error stream
\* without calling the API; no other exit status is produced.
C7_ExitStatus ==
    Ran =>
        /\ exit_status \in {0, 1, 2}
        /\ Rendered => exit_status = 0 /\ cmd.result.kind = "return"
        /\ ClientRaised =>
               /\ exit_status = 1
               /\ stderr = <<IF cmd.result.exc = "LinearClientError"
                             THEN "Error: " ELSE "Unexpected error: ">>
                           \o cmd.result.msg
        /\ exit_status = 2 <=> cmd.step = "usage"
        /\ exit_status = 2 => stderr # <<>> /\ stdout = <<>>

\* a command whose client call raised a client error exited with status 1
C7_Witness ==
    /\ exit_status = 1
    /\ cmd.name = "cycles list"
    /\ ClientRaised
    /\ cmd.env_key = PStr("lin_api_env")
    /\ cmd.response.kind = "http" /\ cmd.response.status = 429
    /\ cmd.result.exc = "LinearClientError"
    /\ Head(stderr) = "Error: "
    /\ stdout = <<>>

Sent(op) == pc \in {"posted", "done"} /\ call.op = op
SentFilter == posts[1].json.variables.f.filter

\* C11: in list_issues a non-empty project string is sent as the identifier
\* filter {id: {eq: s}} if and only if it has exactly 36 characters and
\* holds a hyphen; every other non-empty project string is sent as the name
\* filter {name: {contains: s}}; the project filter never holds both forms.
C11_ProjectFilterForm ==
    Sent("list_issues") /\ call.args.project \notin {PyNone, PChars(<<>>)} =>
      LET s == call.args.project
          f == SentFilter.f["project"]
          looksLikeId == Len(s.c) = 36 /\ "-" \in Range(s.c)
      IN /\ DOMAIN f \in {{"id"}, {"name"}}
         /\ looksLikeId <=> DOMAIN f = {"id"}
         /\ DOMAIN f = {"id"} => f.id = [eq |-> s]
         /\ DOMAIN f = {"name"} => f.name = [contains |-> s]

\* a 36-character name without a hyphen was sent as a name filter
C11_Witness ==
    /\ Sent("list_issues") /\ call.args.project = Name36
    /\ DOMAIN SentFilter.f["project"] = {"name"}

SortOps == {"list_issues", "search_issues", "list_projects"}
SentOrderBy == posts[1].json.variables.f.orderBy

\* C12 as stated: for list_issues, search_issues and list_projects the
\* orderBy variable is createdAt for `created`, updatedAt for `updated`,
\* priority for `priority`, and updatedAt for every other key.
C12_OrderByMap ==
    pc \in {"posted", "done"} /\ call.op \in SortOps =>
      SentOrderBy = CASE call.args.sort = "created" -> "createdAt"
                      [] call.args.sort = "updated" -> "updatedAt"
                      [] call.args.sort = "priority" -> "priority"
                      [] OTHER -> "updatedAt"

\* C12 (amended): for list_issues and search_issues the orderBy variable is
\* createdAt for `created`, updatedAt for `updated`, priority for `priority`
\* and updatedAt for every other key; for list_projects it is createdAt for
\* `created` and updatedAt for every other key, `priority` included.
C12_OrderByPerOperation ==
    pc \in {"posted", "done"} /\ call.op \in SortOps =>
      SentOrderBy = CASE call.args.sort = "created" -> "createdAt"
                      [] call.args.sort = "priority" /\ call.op # "list_projects"
                             -> "priority"
                      [] OTHER -> "updatedAt"

\* list_projects was asked to sort by priority and sent updatedAt
C12_Witness ==
    /\ Sent("list_projects") /\ call.args.sort = "priority"
    /\ SentOrderBy = "updatedAt"

\* C13: in list_issues status s gives state = {name: {eqIgnoreCase: s}},
\* priority p gives priority = {eq: p}, team t gives team = {or: [{key:
\* {eqIgnoreCase: t}}, {name: {containsIgnoreCase: t}}]}, labels L gives
\* labels = {name: {in: L}}; a call with only status, priority and a limit
\* n <= 250 sends exactly the filter {state, priority} and page size n.
C13_SubFilters ==
    Sent("list_issues") =>
      LET a == call.args
          f == IF SentFilter = PyNone THEN EmptyDict ELSE SentFilter.f
          given(x, empty) == x \notin {PyNone, empty}
      IN /\ given(a.status, PStr("")) =>
                f["state"] = [name |-> [eqIgnoreCase |-> a.status]]
         /\ a.priority # PyNone => f["priority"] = [eq |-> a.priority]
         /\ given(a.team, PStr("")) =>
                /\ DOMAIN f["team"] = {"or"}
                /\ f["team"].or = <<[key |-> [eqIgnoreCase |-> a.team]],
                                    [name |-> [containsIgnoreCase |-> a.team]]>>
         /\ given(a.labels, PList(<<>>)) => f["labels"] = [name |-> [in |-> a.labels]]
         /\ /\ given(a.status, PStr("")) /\ a.priority # PyNone
            /\ a.assignee = PyNone /\ a.project = PyNone /\ a.team = PyNone
            /\ a.labels = PyNone /\ a.limit <= 250
            => /\ DOMAIN f = {"state", "priority"}
               /\ posts[1].json.variables.f.first = a.limit

\* status "In Progress", priority 1 and limit 10 sent the two-key filter
C13_Witness ==
    /\ Sent("list_issues")
    /\ call.args.status = PStr("In Progress") /\ call.args.priority = PInt(1)
    /\ call.args.limit = 10 /\ call.args.team = PyNone /\ call.args.labels = PyNone
    /\ call.args.assignee = PyNone /\ call.args.project = PyNone
    /\ SentFilter.f = ("state" :> [name |-> [eqIgnoreCase |-> PStr("In Progress")]])
                      @@ ("priority" :> [eq |-> PInt(1)])
    /\ posts[1].json.variables.f.first = 10

(***************************************************************************)
(* Properties of the editor validation.                                    *)
(***************************************************************************)
\* the editor exited with 0 and left a YAML mapping, which was validated
Validated ==
    /\ epc = "done" /\ edit # PyNone /\ edit.returncode = 0
    /\ "kind" \in DOMAIN edit.file /\ edit.file.kind = "yaml"
    /\ edit.file.doc.t = "dict"
Edited == edit.file.doc.f
Has(key) == key \in DOMAIN Edited
IsDigitText(x) == x.t = "chars" /\ x.c # <<>> /\ \A i \in DOMAIN x.c : IsDigit(x.c[i])
GoodTitle == Has("title") /\ Edited["title"] = PChars(<<" ", "N", "e", "w", " ">>)
GoodPriority == Has("priority") => Edited["priority"] \in {PInt(0), PInt(4)}
GoodEstimate == Has("estimate") => Edited["estimate"] \in {PyNone, PInt(5)}
Rejected == eoutcome.kind = "raise" /\ eoutcome.exc = "ValueError"
Accepted == eoutcome.kind = "return"

\* C14: validation accepts an edited priority if and only if it is one of
\* the integers 0, 1, 2, 3, 4; every other integer and every non-numeric
\* value (text, boolean, null, non-integer number) is rejected with a
\* validation error.  (Text made of digits is left out of the statement.)
C14_PriorityZeroToFour ==
    /\ Validated /\ GoodTitle /\ GoodEstimate
    /\ Has("priority") /\ ~IsDigitText(Edited["priority"])
    => IF Edited["priority"] \in {PInt(n) : n \in 0..4}
       THEN Accepted /\ eoutcome.value.priority = Edited["priority"]
       ELSE Rejected

\* C15: validation rejects with a validation error every edited field set
\* whose title is missing, null, empty or whitespace-only; for every accepted
\* field set the returned title is the edited title without its surrounding
\* whitespace, and is not empty.
C15_TitleRequiredAndTrimmed ==
    Validated =>
      LET title == IF Has("title") THEN Edited["title"] ELSE PyNone
          blank == \/ title = PyNone
                   \/ title.t = "chars" /\ \A i \in DOMAIN title.c : title.c[i] \in Whitespace
      IN /\ blank => Rejected /\ eoutcome.msg = <<"Title cannot be empty">>
         /\ Accepted =>
              LET t == eoutcome.value.title.c IN
              /\ t # <<>>
              /\ Head(t) \notin Whitespace /\ t[Len(t)] \notin Whitespace
              /\ title.t = "chars" =>
                   \E i \in 1..Len(title.c) : \E j \in i..Len(title.c) :
                       /\ t = SubSeq(title.c, i, j)
                       /\ \A k \in 1..Len(title.c) :
                              k < i \/ k > j => title.c[k] \in Whitespace

\* the title " New " was accepted and returned as "New"
C15_Witness ==
    /\ Validated /\ GoodTitle /\ Accepted
    /\ eoutcome.value.title = PChars(<<"N", "e", "w">>)

\* C16: validation accepts an absent or null estimate (the result's estimate
\* is empty) and otherwise accepts the estimate if and only if it parses as
\* an integer >= 0; a negative or non-integer estimate is rejected with a
\* validation error.
C16_EstimateNonNegativeInteger ==
    Validated /\ GoodTitle /\ GoodPriority =>
      LET estimate == IF Has("estimate") THEN Edited["estimate"] ELSE PyNone IN
      IF estimate = PyNone THEN Accepted /\ eoutcome.value.estimate = PyNone
      ELSE IF estimate.t = "int" /\ estimate.v >= 0
      THEN Accepted /\ eoutcome.value.estimate = estimate
      ELSE IF IsDigitText(estimate)
      THEN Accepted /\ eoutcome.value.estimate = PInt(DigitsValue(estimate.c))
      ELSE Rejected

ReadOnlyFields == {"team_name", "assignee_email", "project_name", "labels", "state_name"}

\* C18: whenever the editor flow succeeds, the returned record has the
\* read-only context fields (team_name, assignee_email, project_name, labels,
\* state_name) of the original whatever the edited text contains, and the
\* original record is left unchanged while the flow runs.
C18_ReadOnlyFieldsKept ==
    /\ [](epc = "done" /\ eoutcome.kind = "return" =>
            \A k \in ReadOnlyFields : eoutcome.value[k] = issue_data[k])
    /\ [][epc = "editing" => issue_data' = issue_data]_vars

\* the edited text set every read-only field and the result kept the original's
C18_Witness ==
    /\ Validated /\ eoutcome.kind = "return"
    /\ edit.file.doc = MetadataEdit
    /\ eoutcome.value.team_name = PStr("Engineering")
    /\ eoutcome.value.labels = PList(<<"bug">>)
    /\ issue_data.team_name = PStr("Engineering")

(***************************************************************************)
(* The round trip of an unedited record through the editor flow: the user  *)
(* closes the editor without changing the file.                            *)
(***************************************************************************)
RoundTripTitles ==
    {PChars(<<"F", "i", "x">>), PChars(<<"F", "i", "x", " ", "i", "t">>),
     PChars(<<" ", "F", "i", "x">>), PChars(<<"4", "2">>),
     PChars(<<"a", "\n", "b">>),
     PChars(Rep("x", YAML_WIDTH - 4) \o <<" ", "y">>),
     PChars(Rep("x", YAML_WIDTH - KEY_COLUMN) \o <<" ", "y">>)}

RoundTripDescriptions ==
    {PyNone, PChars(<<"a">>), PChars(<<"a", "\n", "b">>), PChars(<<"a", "\n">>),
     PChars(<<"a", "\n", " ", "b">>), PChars(<<" ", "a", "\n", "b">>),
     PChars(<<"a", "\n", "\n", "b">>)}

RoundTripIssues ==
    [title : RoundTripTitles,
     description : RoundTripDescriptions,
     priority : {PInt(0), PInt(2), PInt(4)},
     estimate : {PyNone, PInt(0), PInt(3)},
     team_name : {PStr("Engineering")},
     assignee_email : {PyNone},
     project_name : {PyNone},
     labels : {PList(<<"bug">>)},
     state_name : {PStr("Todo")}]

NextRoundTrip ==
    \/ \E issue \in RoundTripIssues : edit_issue_in_editor(issue, "ok", TRUE)
    \/ editor_exits(0, Unchanged)
    \/ edit_done

SpecRoundTrip == Init /\ [][NextRoundTrip]_vars

EditableFields == {"title", "description", "priority", "estimate"}

\* the editor exited with 0 and the file holds what the flow wrote
RoundTripped ==
    /\ epc = "done" /\ edit # PyNone /\ edit.returncode = 0
    /\ "kind" \in DOMAIN edit.file /\ edit.file.kind = "lines"

\* C17: for every IssueData record, serializing it, parsing the text back
\* and validating it with no edit in between yields a record whose title,
\* description, priority and estimate equal the original's.
C17_RoundTrip ==
    RoundTripped =>
        /\ eoutcome.kind = "return"
        /\ \A k \in EditableFields : eoutcome.value[k] = issue_data[k]

(***************************************************************************)
(* The connection fields of the models (linear/models.py): GraphQL sends a *)
(* list as a wrapper {"nodes": [...]}, and a validator that runs before    *)
(* the field's own validation takes the list out of the wrapper.           *)
(***************************************************************************)
\* Issue.extract_nodes, the before-validator of labels, comments,
\* attachments and subscribers
extract_nodes(v) ==
    IF v.t = "dict" /\ "nodes" \in DOMAIN v.f
    THEN v.f["nodes"]
    ELSE PyOr(v, PList(<<>>))

\* Project.extract_teams_nodes, the before-validator of teams
extract_teams_nodes(v) ==
    IF v.t = "dict" /\ "nodes" \in DOMAIN v.f
    THEN v.f["nodes"]
    ELSE PyOr(v, PList(<<>>))

ConnectionFields ==
    [Issue |-> {"labels", "comments", "attachments", "subscribers"},
     Project |-> {"teams"}]

before_validator(model, v) ==
    IF model = "Project" THEN extract_teams_nodes(v) ELSE extract_nodes(v)

\* every item model (Label, Comment, Attachment, User, Team) requires `id`
valid_item(item) == item.t = "dict" /\ "id" \in DOMAIN item.f

\* pydantic's validation of a field declared list[Model]
validate_list(v) ==
    IF v.t # "list"
    THEN Raise("ValidationError", <<"Input should be a valid list">>)
    ELSE IF \E i \in DOMAIN v.l : ~valid_item(v.l[i])
    THEN Raise("ValidationError", <<"Field required">>)
    ELSE Return(v)

\* the value of one connection field after Model.model_validate(data): a
\* key that is not in the data takes the default (an empty list) and the
\* before-validator does not run
validate_field(model, field, data) ==
    IF field \notin DOMAIN data.f
    THEN Return(PList(<<>>))
    ELSE validate_list(before_validator(model, data.f[field]))

Node(id) == PDict("id" :> PStr(id))
PageInfo == PDict("hasNextPage" :> PBool(FALSE))

ItemLists ==
    {<<>>} \cup {<<Node(a)>> : a \in {"n1", "n2"}}
    \cup {<<Node(a), Node(b)>> : a, b \in {"n1", "n2"}}
    \cup {<<PDict(EmptyDict)>>}

Wrappers ==
    {PDict("nodes" :> PList(l)) : l \in ItemLists}
    \cup {PDict(("nodes" :> PList(l)) @@ ("pageInfo" :> PageInfo)) : l \in ItemLists}

ConnectionValues ==
    {Absent, PyNone, PDict(EmptyDict), PDict("pageInfo" :> PageInfo),
     PDict("nodes" :> PyNone)}
    \cup Wrappers
    \cup {PList(l) : l \in ItemLists}
    \cup {PDict("nodes" :> w) : w \in {PDict("nodes" :> PList(<<Node("n1")>>))}}

\* Model.model_validate(data), seen at one connection field
model_validate_field(model, field, v) ==
    /\ vdata' = [model |-> model, field |-> field, data |-> PDict(Opt(field, v))]
    /\ vflat' = IF v = Absent THEN <<>> ELSE <<before_validator(model, v)>>
    /\ vresult' = validate_field(model, field, PDict(Opt(field, v)))
    /\ UNCHANGED <<clientVars, cliVars, editorVars, groupVars>>

\* the before-validator applied to its own result
flatten_again ==
    /\ Len(vflat) = 1
    /\ vflat' = Append(vflat, before_validator(vdata.model, vflat[1]))
    /\ UNCHANGED <<vdata, vresult, clientVars, cliVars, editorVars, groupVars>>

NextModels ==
    \/ \E model \in DOMAIN ConnectionFields :
         \E field \in ConnectionFields[model], v \in ConnectionValues :
            model_validate_field(model, field, v)
    \/ flatten_again

SpecModels == Init /\ [][NextModels]_vars

Validated_field == vdata # PyNone
FieldInput == DictGet(vdata.data, vdata.field, Absent)
IsNodeList(v) == v.t = "list" /\ \A i \in DOMAIN v.l : valid_item(v.l[i])

\* C19: for every connection field (labels, comments, attachments and
\* subscribers of an issue, teams of a project) a wrapper {nodes: [...]}
\* gives the inner list, and an absent wrapper, a null wrapper and a wrapper
\* without `nodes` give the empty list; none of these inputs is an error.
C19_ConnectionFieldFlattened ==
    Validated_field =>
        /\ (FieldInput.t = "dict" /\ "nodes" \in DOMAIN FieldInput.f
               /\ IsNodeList(FieldInput.f["nodes"])
            => vresult = Return(FieldInput.f["nodes"]))
        /\ (\/ FieldInput \in {Absent, PyNone}
            \/ FieldInput.t = "dict" /\ "nodes" \notin DOMAIN FieldInput.f
            => vresult = Return(PList(<<>>)))

\* C20: the flattening function is total and idempotent: applied to its
\* own result it returns that result again, for every input, and a missing
\* wrapper flattens to the empty list.
C20_FlattenIdempotent ==
    /\ (Len(vflat) = 2 => vflat[2] = vflat[1])
    /\ (Len(vflat) >= 1 /\ FieldInput \in {PyNone, PDict(EmptyDict)}
        => vflat[1] = PList(<<>>))

(***************************************************************************)
(* Properties of the order of the editor flow's steps.                     *)
(***************************************************************************)
FlowOrder ==
    <<"_serialize_to_yaml", "_write_temp_file", "_open_editor", "subprocess.run",
      "_read_temp_file", "_parse_yaml_content", "_validate_and_merge">>
Called(step) == \E i \in DOMAIN ecalls : ecalls[i] = step
EditorExited == epc = "done" /\ edit # PyNone
EditorMissing == epc = "done" /\ edit = PyNone /\ Called("_open_editor")

\* C23: the editor flow runs its steps in a fixed order and stops at the
\* first failure: the editor is launched only after the temp file is
\* written, the file is read only after the editor exited with 0, the content
\* is parsed only after a read that gave non-empty content, validation runs
\* only after a successful parse, a record is returned only after
\* validation; a missing editor or a non-zero exit raises an editor error
\* and the file is neither read nor parsed.
C23_StepsInOrder ==
    /\ Len(ecalls) <= Len(FlowOrder) /\ ecalls = SubSeq(FlowOrder, 1, Len(ecalls))
    /\ (Called("subprocess.run") /\ epc = "editing" => temp_file = serialize_to_yaml(issue_data))
    /\ (Called("_read_temp_file") => EditorExited /\ edit.returncode = 0)
    /\ (Called("_parse_yaml_content") => edit.file \notin {PyNone, BlankText})
    /\ (Called("_validate_and_merge") => parse_yaml_content(edit.file).kind = "return")
    /\ (epc = "done" /\ eoutcome.kind = "return" => Called("_validate_and_merge"))
    /\ (epc = "done" /\ eoutcome.kind = "raise" /\ eoutcome.exc # "OSError"
           /\ Len(ecalls) < Len(FlowOrder)
        => CASE ~Called("subprocess.run") -> eoutcome.exc = "FileNotFoundError"
             [] ~Called("_read_temp_file") -> eoutcome.exc = "RuntimeError"
             [] ~Called("_parse_yaml_content") -> eoutcome = read_temp_file(edit.file)
             [] OTHER -> eoutcome = parse_yaml_content(edit.file))
    /\ (EditorMissing => eoutcome.kind = "raise" /\ eoutcome.exc = "FileNotFoundError"
                         /\ ~Called("subprocess.run") /\ ~Called("_read_temp_file"))
    /\ (EditorExited /\ edit.returncode # 0
        => /\ eoutcome.kind = "raise" /\ eoutcome.exc = "RuntimeError"
           /\ ~Called("_read_temp_file") /\ ~Called("_parse_yaml_content"))

\* the editor exited with 1 leaving a valid document, which was never read
C23_Witness ==
    /\ EditorExited /\ edit.returncode = 1
    /\ edit.file = YamlText(MetadataEdit, <<>>)
    /\ ecalls = SubSeq(FlowOrder, 1, 4)
    /\ eoutcome.kind = "raise" /\ eoutcome.exc = "RuntimeError"

\* C24: after the editor exited with 0, if the temp file no longer exists
\* or its content is empty or whitespace only, the flow raises an error and
\* returns no record, and the content is never passed to the parser.
C24_MissingOrBlankFileFails ==
    EditorExited /\ edit.returncode = 0 /\ edit.file \in {PyNone, BlankText}
    => /\ eoutcome.kind = "raise"
       /\ eoutcome.exc = (IF edit.file = PyNone THEN "FileNotFoundError" ELSE "ValueError")
       /\ Called("_read_temp_file")
       /\ ~Called("_parse_yaml_content") /\ ~Called("_validate_and_merge")

\* the user saved a blank file and left the editor with 0
C24_Witness ==
    /\ EditorExited /\ edit.returncode = 0 /\ edit.file = BlankText
    /\ eoutcome = Raise("ValueError", <<"Edited file is empty">>)
    /\ ~Called("_parse_yaml_content")

C24_WitnessDeleted ==
    /\ EditorExited /\ edit.returncode = 0 /\ edit.file = PyNone
    /\ eoutcome.kind = "raise" /\ eoutcome.exc = "FileNotFoundError"

\* the file the editor left holds no field set: it is not YAML, or holds
\* only comments, or its document is a list or a scalar
NoFieldSet ==
    /\ EditorExited /\ edit.returncode = 0
    /\ \/ edit.file = InvalidYaml
       \/ /\ edit.file \notin {PyNone, BlankText} /\ edit.file.kind = "yaml"
          /\ edit.file.doc.t # "dict"

\* C25: for every edited content that does not parse into a field set
\* (invalid syntax, comments only, a list or a scalar instead of a mapping)
\* the editor flow fails with a ValueError and returns no record.
C25_NoFieldSetIsValueError ==
    NoFieldSet => eoutcome.kind = "raise" /\ eoutcome.exc = "ValueError"

\* C26: whatever the outcome, a failure while the content is written to the
\* newly created temp file included, no temp file created by
\* edit_issue_in_editor exists after the call ends.
C26_NoTempFileAfterCall ==
    epc = "done" => temp_file = PyNone

(***************************************************************************)
(* _validate_and_merge over originals of any priority: IssueData does not  *)
(* check its fields, so the original can hold a priority outside 0..4.     *)
(***************************************************************************)
MergeOriginals ==
    [title : {PChars(<<"F", "i", "x">>)},
     description : {PyNone},
     priority : {PyNone, PInt(-1), PInt(0), PInt(4), PInt(7)},
     estimate : {PyNone, PInt(3)},
     team_name : {PStr("Engineering")},
     assignee_email : {PyNone},
     project_name : {PyNone},
     labels : {PList(<<"bug">>)},
     state_name : {PStr("Todo")}]

NextMerge ==
    \/ \E issue \in MergeOriginals, fs \in FileSystemResults, found \in BOOLEAN :
          edit_issue_in_editor(issue, fs, found)
    \/ \E rc \in ExitCodes, left \in Edits : editor_exits(rc, left)
    \/ edit_done

SpecMerge == Init /\ [][NextMerge]_vars

Trimmed(x) == x.t = "chars" /\ x.c # <<>> /\ strip(x.c) = x.c

\* C28: every record returned by _validate_and_merge, for any original and
\* any edited field set (one without a priority key included, where the
\* original's priority is used), has an integer priority in 0..4, a
\* non-empty title without surrounding whitespace, an estimate that is None
\* or an integer >= 0, and a description that is None or a non-empty string
\* without surrounding whitespace.
C28_ReturnedRecordValid ==
    Validated /\ eoutcome.kind = "return" =>
        LET r == eoutcome.value IN
        /\ r.priority.t = "int" /\ r.priority.v \in 0..4
        /\ Trimmed(r.title)
        /\ (r.estimate = PyNone \/ (r.estimate.t = "int" /\ r.estimate.v >= 0))
        /\ (r.description = PyNone \/ Trimmed(r.description))

\* the edited mapping has no priority key and the original's 4 was returned
C28_Witness ==
    /\ Validated /\ eoutcome.kind = "return"
    /\ ~Has("priority") /\ issue_data.priority = PInt(4)
    /\ eoutcome.value.priority = PInt(4)
    /\ Has("description") /\ eoutcome.value.description = PChars(<<"d">>)

(***************************************************************************)
(* Properties of the path from a failed query to the command's message.    *)
(***************************************************************************)
\* the client was constructed and its query failed: a connection failure, a
\* non-2xx status, a 2xx body that is not JSON, or a body with `errors`
QueryFailed ==
    /\ Ran /\ cmd.step # "usage" /\ Truthy(cmd.env_key)
    /\ \/ cmd.response.kind = "request_error"
       \/ ~Is2xx(cmd.response.status)
       \/ cmd.response.body = JInvalid
       \/ "errors" \in DOMAIN cmd.response.body.f

\* C29: every failure of LinearClient.query (non-2xx status, connection
\* failure, a 2xx body that is not valid JSON, a body with an errors list)
\* reaches the caller as a LinearClientError, so every command reports it
\* as `Error:` and never as `Unexpected error:`.
C29_QueryFailureIsClientError ==
    QueryFailed =>
        /\ cmd.result.kind = "raise" /\ cmd.result.exc = "LinearClientError"
        /\ Head(stderr) = "Error: "

(***************************************************************************)
(* The grouped table of issues (linear/formatters.py 59-182).  A text is   *)
(* the sequence of its characters; a markup tag is one element of it.      *)
(***************************************************************************)
\* the characters of the names in code point order, which is the order in
\* which Python compares strings
CodePointOrder ==
    <<" ", "-", "1", "2", "A", "C", "E", "G", "N", "O", "P", "Q", "S", "W", CloseTag, OpenTag, "a", "b", "c", "e", "g", "h", "i", "j", "l", "m", "n", "o", "p", "r", "s", "t", "u", "y">>

Ord(ch) == CHOOSE i \in DOMAIN CodePointOrder : CodePointOrder[i] = ch

\* a < b for two str
RECURSIVE str_lt(_, _)
str_lt(a, b) ==
    IF b = <<>> THEN FALSE
    ELSE IF a = <<>> THEN TRUE
    ELSE IF Head(a) = Head(b) THEN str_lt(Tail(a), Tail(b))
    ELSE Ord(Head(a)) < Ord(Head(b))

\* str.startswith
startswith(s, prefix) == Len(s) >= Len(prefix) /\ SubSeq(s, 1, Len(prefix)) = prefix

NoCycle == <<"N", "o", " ", "c", "y", "c", "l", "e">>
NoProject == <<"N", "o", " ", "p", "r", "o", "j", "e", "c", "t">>
NoTeam == <<"N", "o", " ", "t", "e", "a", "m">>
Unknown == <<"U", "n", "k", "n", "o", "w", "n">>
Unassigned == <<"U", "n", "a", "s", "s", "i", "g", "n", "e", "d">>
NoPrefix == <<"N", "o", " ">>

\* models.py 290-317: an Issue is built only with a team (team: Team)
Issue_validate(data) ==
    IF data.team = PyNone
    THEN Raise("ValidationError", <<"team: Input should be a valid dictionary">>)
    ELSE Return(data)

\* models.py 332-350
format_short_id(issue) == issue.identifier
format_assignee(issue) == IF issue.assignee # PyNone THEN issue.assignee.name ELSE Unassigned
\* updated_at is held as the text strftime("%Y-%m-%d") gives, ten characters
format_updated_date(issue) == issue.updated_at

\* formatters.py 77-88: the key of the group an issue goes to
group_key(issue, group_by) ==
    CASE group_by = "cycle" ->
            IF issue.cycle # PyNone /\ Truthy(issue.cycle.name)
            THEN issue.cycle.name.c ELSE NoCycle
      [] group_by = "project" ->
            IF issue.project # PyNone /\ issue.project.name # <<>>
            THEN issue.project.name ELSE NoProject
      [] group_by = "team" -> issue.team.key \o <<" ", "-", " ">> \o issue.team.name
      [] OTHER -> Unknown

\* the keys of the dict `groups` in insertion order
RECURSIVE group_keys(_, _)
group_keys(issues, group_by) ==
    IF issues = <<>> THEN <<>>
    ELSE LET before == group_keys(SubSeq(issues, 1, Len(issues) - 1), group_by)
             key == group_key(issues[Len(issues)], group_by)
         IN IF \E i \in DOMAIN before : before[i] = key THEN before
            ELSE Append(before, key)

\* groups[key]: the issues appended under the key, as positions of the list
RECURSIVE group_members(_, _, _, _)
group_members(issues, group_by, key, i) ==
    IF i > Len(issues) THEN <<>>
    ELSE (IF group_key(issues[i], group_by) = key THEN <<i>> ELSE <<>>)
         \o group_members(issues, group_by, key, i + 1)

\* formatters.py 92: key=lambda x: (x[0].startswith("No "), x[0])
group_sort_lt(a, b) ==
    LET na == startswith(a, NoPrefix)
        nb == startswith(b, NoPrefix)
    IN (~na /\ nb) \/ (na = nb /\ str_lt(a, b))

sorted_groups(issues, group_by) == SortSeq(group_keys(issues, group_by), group_sort_lt)

RECURSIVE MaxLen(_, _)
MaxLen(texts, i) ==
    IF i > Len(texts) THEN 0
    ELSE LET rest == MaxLen(texts, i + 1) IN
         IF Len(texts[i]) > rest THEN Len(texts[i]) ELSE rest

\* formatters.py 95-111: the five maxima over all the issues, and the padding
fixed_width(issues) ==
    MaxLen([i \in DOMAIN issues |-> format_short_id(issues[i])], 1)
    + MaxLen([i \in DOMAIN issues |-> issues[i].state.name], 1)
    + MaxLen([i \in DOMAIN issues |-> issues[i].priority_label], 1)
    + MaxLen([i \in DOMAIN issues |-> format_assignee(issues[i])], 1)
    + MaxLen([i \in DOMAIN issues |-> format_updated_date(issues[i])], 1)
    + 10

Max(a, b) == IF a >= b THEN a ELSE b

\* mutant: the title width has no lower bound
max_title_width_no_floor(terminal_width, fixed) == Min(terminal_width - fixed, 70)

\* formatters.py 112-114: max(20, min(available_for_title, 70))
max_title_width(terminal_width, fixed) == Max(20, Min(terminal_width - fixed, 70))

\* formatters.py 118-120: the header of a group; the name is not escaped
group_header(name, count) ==
    [kind |-> "header", name |-> name, count |-> count]
    @@ console_print(<<"\n", OpenTag>> \o name
                     \o <<CloseTag, " ", OpenTag, "(", ToString(count), " issue",
                          IF count # 1 THEN "s" ELSE "", ")", CloseTag>>)

\* formatters.py 168-178: the rows of a group; the title is escaped
group_table(issues, members) ==
    [kind |-> "table"]
    @@ table_print([j \in DOMAIN members |->
           LET issue == issues[members[j]] IN
           <<format_short_id(issue), escape(issue.title), issue.state.name,
             issue.priority_label, format_assignee(issue), format_updated_date(issue)>>])

\* formatters.py 180-182
group_summary(total, groups) ==
    [kind |-> "summary", total |-> total, groups |-> groups]
    @@ console_print(<<"\n", OpenTag, "Total: ", ToString(total), " issue(s) across ",
                       ToString(groups), " group(s)", CloseTag>>)

RECURSIVE group_prints(_, _, _)
group_prints(issues, groups, names) ==
    IF names = <<>> THEN <<>>
    ELSE <<group_header(Head(names), Len(groups[Head(names)])),
           group_table(issues, groups[Head(names)])>>
         \o group_prints(issues, groups, Tail(names))

\* formatters.py 59-182: the locals of the call and its prints
format_table_grouped(issues, group_by, terminal_width) ==
    IF issues = <<>>
    THEN [groups |-> <<>>, sorted |-> <<>>, fixed_width |-> 0, max_title_width |-> 0,
          prints |-> <<console_print(NoneFound)>>]
    ELSE LET keys == group_keys(issues, group_by)
             groups == [k \in {keys[i] : i \in DOMAIN keys} |->
                            group_members(issues, group_by, k, 1)]
             names == sorted_groups(issues, group_by)
             fixed == fixed_width(issues)
         IN [groups |-> groups, sorted |-> names, fixed_width |-> fixed,
             max_title_width |-> max_title_width(terminal_width, fixed),
             prints |-> group_prints(issues, groups, names)
                        \o <<group_summary(Len(issues), Len(keys))>>]

(***************************************************************************)
(* Inputs of the grouped table.                                            *)
(***************************************************************************)
MaxIssues == 3

GroupIssueData ==
    {[identifier |-> <<"E", "-", "1">>, title |-> <<"a">>,
      state |-> [name |-> <<"T", "o", "d", "o">>], priority_label |-> <<"H", "i", "g", "h">>,
      assignee |-> [name |-> <<"A", "n", "n">>], updated_at |-> <<"2", "0", "2", "4", "-", "0", "1", "-", "0", "1">>,
      team |-> [key |-> <<"E", "N", "G">>, name |-> <<"E", "n", "g">>],
      project |-> [name |-> <<"W", "e", "b">>], cycle |-> [name |-> PChars(<<"C", "2">>)]],
     [identifier |-> <<"O", "P", "S", "-", "1", "2">>, title |-> <<"b">>,
      state |-> [name |-> <<"I", "n", " ", "P", "r", "o", "g", "r", "e", "s", "s">>], priority_label |-> <<"N", "o", " ", "p", "r", "i", "o", "r", "i", "t", "y">>,
      assignee |-> PyNone, updated_at |-> <<"2", "0", "2", "4", "-", "0", "1", "-", "0", "1">>,
      team |-> [key |-> <<"O", "P", "S">>, name |-> <<"O", "p", "s">>],
      project |-> PyNone, cycle |-> PyNone],
     [identifier |-> <<"E", "-", "2">>, title |-> <<"c">>,
      state |-> [name |-> <<"T", "o", "d", "o">>], priority_label |-> <<"H", "i", "g", "h">>,
      assignee |-> [name |-> <<"A", "n", "n">>], updated_at |-> <<"2", "0", "2", "4", "-", "0", "1", "-", "0", "1">>,
      team |-> [key |-> <<"E", "N", "G">>, name |-> <<"E", "n", "g">>],
      project |-> [name |-> <<"N", "o", " ", "t", "e", "s", "t", "s">>], cycle |-> [name |-> PyNone]],
     [identifier |-> <<"E", "-", "3">>, title |-> <<"d">>,
      state |-> [name |-> <<"T", "o", "d", "o">>], priority_label |-> <<"H", "i", "g", "h">>,
      assignee |-> [name |-> <<"A", "n", "n">>], updated_at |-> <<"2", "0", "2", "4", "-", "0", "1", "-", "0", "1">>,
      team |-> [key |-> <<"E", "N", "G">>, name |-> <<"E", "n", "g">>],
      project |-> [name |-> <<"A", "p", "i">>], cycle |-> [name |-> PChars(<<"C", "1">>)]],
     [identifier |-> <<"E", "-", "4">>, title |-> <<"e">>,
      state |-> [name |-> <<"T", "o", "d", "o">>], priority_label |-> <<"H", "i", "g", "h">>,
      assignee |-> [name |-> <<"A", "n", "n">>], updated_at |-> <<"2", "0", "2", "4", "-", "0", "1", "-", "0", "1">>,
      team |-> PyNone,
      project |-> [name |-> <<"W", "e", "b">>], cycle |-> [name |-> PChars(<<"C", "1">>)]],
     [identifier |-> <<"E", "-", "5">>, title |-> <<"f">>,
      state |-> [name |-> <<"T", "o", "d", "o">>], priority_label |-> <<"H", "i", "g", "h">>,
      assignee |-> PyNone, updated_at |-> <<"2", "0", "2", "4", "-", "0", "1", "-", "0", "1">>,
      team |-> [key |-> <<"O", "P", "S">>, name |-> <<"O", "p", "s">>],
      project |-> [name |-> <<"Q", "1", CloseTag>>], cycle |-> PyNone],
     [identifier |-> <<"E", "-", "6">>, title |-> <<"g", CloseTag>>,
      state |-> [name |-> <<"T", "o", "d", "o">>], priority_label |-> <<"H", "i", "g", "h">>,
      assignee |-> [name |-> <<"A", "n", "n">>], updated_at |-> <<"2", "0", "2", "4", "-", "0", "1", "-", "0", "1">>,
      team |-> [key |-> <<"E", "N", "G">>, name |-> <<"E", "n", "g">>],
      project |-> [name |-> <<"W", "e", "b">>], cycle |-> [name |-> PChars(<<"C", "2">>)]]}

GroupBys == {"cycle", "project", "team"}
TerminalWidths == {40, 80, 200}

IssueLists == UNION {[1..n -> GroupIssueData] : n \in 0..MaxIssues}

(***************************************************************************)
(* One call of format_table_grouped on issues built from `datas`.          *)
(***************************************************************************)
format_table_grouped_call(datas, group_by, terminal_width) ==
    /\ gcall = PyNone
    /\ LET built == [i \in DOMAIN datas |-> Issue_validate(datas[i])]
           invalid == {i \in DOMAIN datas : built[i].kind = "raise"}
       IN IF invalid # {}
          THEN /\ gcall' = [step |-> "validate", issues |-> datas, group_by |-> group_by,
                            terminal_width |-> terminal_width]
               /\ gout' = <<>>
               /\ gresult' = built[CHOOSE i \in invalid : \A j \in invalid : i <= j]
          ELSE LET f == format_table_grouped(datas, group_by, terminal_width)
                   shown == run_presenter(f.prints)
               IN /\ gcall' = [step |-> "format", issues |-> datas, group_by |-> group_by,
                               terminal_width |-> terminal_width, groups |-> f.groups,
                               sorted |-> f.sorted, fixed_width |-> f.fixed_width,
                               max_title_width |-> f.max_title_width]
                  /\ gout' = shown.printed
                  /\ gresult' = shown.result
    /\ UNCHANGED <<clientVars, cliVars, editorVars, modelVars>>

\* the caller goes on; the next call starts afresh
format_table_grouped_done ==
    /\ gcall # PyNone
    /\ gcall' = PyNone
    /\ gout' = <<>>
    /\ gresult' = NoOutcome
    /\ UNCHANGED <<clientVars, cliVars, editorVars, modelVars>>

NextGrouped ==
    \/ \E datas \in IssueLists, group_by \in GroupBys, terminal_width \in TerminalWidths :
          format_table_grouped_call(datas, group_by, terminal_width)
    \/ format_table_grouped_done

SpecGrouped == Init /\ [][NextGrouped]_vars

(***************************************************************************)
(* Properties of the grouped table.                                        *)
(***************************************************************************)
\* a call on a non-empty list of issues got as far as grouping them
Grouped == gcall # PyNone /\ gcall.step = "format" /\ gcall.issues # <<>>
Fallback(group_by) ==
    CASE group_by = "cycle" -> NoCycle
      [] group_by = "project" -> NoProject
      [] group_by = "team" -> NoTeam
Headers == SelectSeq(gout, LAMBDA p : p.kind = "header")

\* C21: for every issue list and every grouping dimension the groups are
\* printed with the fallback "No <dimension>" bucket last and all the named
\* buckets before it in alphabetical order of their names.
C21_FallbackLastNamedAlphabetical ==
    Grouped =>
        /\ \A i \in DOMAIN Headers : Headers[i].name = gcall.sorted[i]
        /\ \A i, j \in DOMAIN gcall.sorted :
              i < j => /\ gcall.sorted[i] # Fallback(gcall.group_by)
                       /\ \/ gcall.sorted[j] = Fallback(gcall.group_by)
                          \/ str_lt(gcall.sorted[i], gcall.sorted[j])

Lacks(issue, group_by) ==
    CASE group_by = "cycle" -> issue.cycle = PyNone
      [] group_by = "project" -> issue.project = PyNone
      [] group_by = "team" -> issue.team = PyNone
InGroup(i, name) ==
    /\ name \in DOMAIN gcall.groups
    /\ \E j \in DOMAIN gcall.groups[name] : gcall.groups[name][j] = i

\* C22: for each grouping dimension (cycle, project, team) every issue that
\* lacks the dimension is placed in the bucket "No cycle", "No project" or
\* "No team"; grouping by team a list in which some issues have no team
\* produces a "No team" bucket.
C22_LackingGoesToFallback ==
    /\ Grouped =>
          \A i \in DOMAIN gcall.issues :
              Lacks(gcall.issues[i], gcall.group_by) =>
                  InGroup(i, Fallback(gcall.group_by))
    /\ gcall # PyNone /\ gcall.group_by = "team" =>
          \A i \in DOMAIN gcall.issues :
              gcall.issues[i].team = PyNone =>
                  /\ gcall.step = "format"
                  /\ InGroup(i, NoTeam)
                  /\ \E h \in DOMAIN Headers : Headers[h].name = NoTeam

Available == gcall.terminal_width - gcall.fixed_width
ColumnsFit ==
    \A i \in DOMAIN gcall.issues :
        LET issue == gcall.issues[i] IN
        Len(format_short_id(issue)) + Len(issue.state.name) + Len(issue.priority_label)
        + Len(format_assignee(issue)) + Len(format_updated_date(issue)) + 10
        <= gcall.fixed_width

\* C27 as stated: for every terminal width and every issue list the title
\* column width never exceeds the terminal width minus the sum of the other
\* five column widths and the padding (10), and it is at most 70.
C27_TitleWithinRemainingWidth ==
    Grouped =>
        /\ gcall.max_title_width <= Available
        /\ gcall.max_title_width <= 70

\* C27 (amended): the title column width is at most 70 and at least 20; it
\* does not exceed the terminal width minus the other five column widths
\* and the padding (10) whenever that remainder is at least 20, and it is 20
\* when the remainder is smaller, wider than what the terminal has left.
C27_TitleWidthBounds ==
    Grouped =>
        /\ ColumnsFit
        /\ gcall.max_title_width <= 70
        /\ gcall.max_title_width >= 20
        /\ (Available >= 20 => gcall.max_title_width <= Available)
        /\ (Available < 20 => gcall.max_title_width = 20)
        /\ (Available >= 70 => gcall.max_title_width = 70)

\* a terminal of 40 columns leaves less than 20 for the title
C27_Witness ==
    /\ Grouped /\ gcall.terminal_width = 40
    /\ Available < 20 /\ gcall.max_title_width = 20

RECURSIVE SumCounts(_)
SumCounts(headers) ==
    IF headers = <<>> THEN 0 ELSE Head(headers).count + SumCounts(Tail(headers))
Summaries == SelectSeq(gout, LAMBDA p : p.kind = "summary")
GroupsOf(i) == {name \in DOMAIN gcall.groups : InGroup(i, name)}

\* the dict `groups` is a partition of the list that keeps the input order
GroupsPartition ==
    /\ \A i \in DOMAIN gcall.issues : Cardinality(GroupsOf(i)) = 1
    /\ \A name \in DOMAIN gcall.groups :
          LET members == gcall.groups[name] IN
          /\ members # <<>>
          /\ \A j \in DOMAIN members : members[j] \in DOMAIN gcall.issues
          /\ \A j, k \in DOMAIN members : j < k => members[j] < members[k]

\* C30: for every non-empty issue list the groups form a partition of the
\* list: every issue is in exactly one group, no group is empty, the
\* per-group counts printed in the headers sum to the total count printed in
\* the summary line, and issues keep their input order inside a group.
C30_GroupsPartitionTheList ==
    Grouped =>
        /\ GroupsPartition
        /\ Len(Headers) = Cardinality(DOMAIN gcall.groups)
        /\ \A h \in DOMAIN Headers : Headers[h].count = Len(gcall.groups[Headers[h].name])
        /\ Len(Summaries) = 1
        /\ SumCounts(Headers) = Summaries[1].total
        /\ Summaries[1].total = Len(gcall.issues)

====
